---- MODULE Spec2Model ----
(***************************************************************************)
(* A model of the Codex JSONL -> HTML converter                            *)
(* (convertor_html_rendering.py, convertor_html_main.py).                  *)
(*                                                                         *)
(* Text is modelled as a sequence of tokens.  Each token stands for a      *)
(* fixed piece of text ("NL" a newline, "FENCE" three backticks, ...), so  *)
(* that concatenation, slicing, searching and replacing are the sequence   *)
(* operations.  A JSON value is a record tagged with its Python type.      *)
(***************************************************************************)
EXTENDS Integers, Sequences, FiniteSets, TLC

VARIABLES
    \* ---- extract_text_content(content_data) ----
    content_data,     \* the argument
    ext_pc,           \* "call" before the call, "done" after it
    ext_result,       \* what the call produced: a value or an exception
    \* ---- _build_response_item(payload) for the tool records ----
    tool_payload,     \* the payload of a function_call / function_call_output
    tool_pc,          \* "call" before the call, "done" after it
    tool_html,        \* what the call produced: a fragment or an exception
    \* ---- format_content(text) ----
    fmt_text,         \* the argument
    fmt_pc,           \* "call" before the call, "done" after it
    fmt_html,         \* the markup returned
    \* ---- write_index_html_for_folder: the overview's entries ----
    idx_files,        \* the converted sessions under the input root, in os.walk order
    idx_pc,           \* "call" before the overview is built, "done" after it
    idx_tables,       \* the rendered overview: folder -> the rows of its table
    \* ---- convert_single_file(input_path) ----
    input_path,       \* the name of the file a call converts, under input_root
    input_file,       \* the lines of the file at input_path
    siblings,         \* the other .jsonl files under input_root: name ->
                      \* the file's lines and its session document
    calls,            \* number of convert_single_file calls made so far
    pc,               \* "start", "loop" (the main loop), "done" (returned)
    lines,            \* f.readlines()
    line_no,          \* index of the line the main loop takes next
    html_parts,       \* the fragments appended so far
    processed_user_messages,        \* the four sets of hashes
    processed_user_events,
    processed_assistant_messages,
    processed_events_other,
    rendered_message_count,
    result,           \* the (success, message) pair returned
    session_doc,      \* the file at output_path
    overview,         \* codex_sessions_overview.html
    \* ---- convert_single_file: where the session document goes ----
    path_args,        \* input_path, output_folder, input_root
    path_pc,          \* "call" before the call, "done" after it
    path_dirs,        \* the directories os.makedirs made sure of
    path_written,     \* the paths of the session documents written
    \* ---- BatchConverterGUI ----
    tree,             \* self.tree: the rows of the Treeview (item -> parent)
    tree_items,       \* self.tree_items: item -> its "state"
    check_all_var,    \* the Select All checkbox
    status,           \* the status column of the rows
    after_queue,      \* the callbacks handed to root.after(0, ...), oldest first
    threads,          \* the worker threads started: thread -> its locals
    documents,        \* the files whose session document is on disk
    listed,           \* the files the overview on disk lists
    notices           \* the "Batch Complete" boxes shown: their file counts

ext_vars  == <<content_data, ext_pc, ext_result>>
tool_vars == <<tool_payload, tool_pc, tool_html>>
fmt_vars  == <<fmt_text, fmt_pc, fmt_html>>
idx_vars  == <<idx_files, idx_pc, idx_tables>>

seen_vars == <<processed_user_messages, processed_user_events,
               processed_assistant_messages, processed_events_other>>
ses_vars  == <<input_path, input_file, siblings, calls, pc, lines, line_no, html_parts, seen_vars,
               rendered_message_count, result, session_doc, overview>>

path_vars == <<path_args, path_pc, path_dirs, path_written>>

gui_vars == <<tree, tree_items, check_all_var, status, after_queue, threads,
              documents, listed, notices>>

vars == <<ext_vars, tool_vars, fmt_vars, idx_vars, ses_vars, path_vars, gui_vars>>

-----------------------------------------------------------------------------
(* Generic helpers *)

\* All sequences over S of length 0..n
SeqUpTo(S, n) == UNION {[1..k -> S] : k \in 0..n}

\* What a Python call produces: a returned value or a raised exception.
Returned(v) == [raised |-> FALSE, val |-> v]
Raised      == [raised |-> TRUE,  val |-> <<>>]

RECURSIVE Flatten(_)
\* "".join(parts) for a sequence of texts
Flatten(parts) ==
    IF parts = <<>> THEN <<>> ELSE Head(parts) \o Flatten(Tail(parts))

-----------------------------------------------------------------------------
(* Bounds *)

MaxBlocks == 2      \* longest content list given to extract_text_content

-----------------------------------------------------------------------------
(* JSON values as they reach extract_text_content *)

JStr(s)  == [t |-> "str", s |-> s]
JNull    == [t |-> "null"]
JNum     == [t |-> "num"]
JObj     == [t |-> "dict"]
JList(l) == [t |-> "list", items |-> l]

\* The value of a block's "text" key: absent, a string, null or a number.
NoKey == [t |-> "absent"]

SampleTexts == {<<>>, <<"hello">>, <<"x">>}

TextFieldValues == {NoKey, JNull, JNum} \cup {JStr(s) : s \in SampleTexts \ {<<>>}}

\* The value of a block's "type" key.  "absent" is a missing key (dict.get
\* gives None), "unhashable" is a list or object value.
BlockTypeValues ==
    {"input_text", "output_text", "summary_text", "text", "image",
     "absent", "unhashable"}

\* One element of a content list: a dict block, or something that is no dict.
Block(ty, tx) == [k |-> "dict", type |-> ty, text |-> tx]
NonDictItem   == [k |-> "other"]

ContentItems ==
    {Block(ty, tx) : ty \in BlockTypeValues, tx \in TextFieldValues}
        \cup {NonDictItem}

ContentValues ==
    {JStr(s) : s \in SampleTexts} \cup {JNull, JNum, JObj}
        \cup {JList(l) : l \in SeqUpTo(ContentItems, MaxBlocks)}

-----------------------------------------------------------------------------
(* extract_text_content *)

TEXT_BLOCK_TYPES == {"input_text", "output_text", "summary_text", "text"}

\* item.get("text", "")
GetText(item) == IF item.text = NoKey THEN JStr(<<>>) ELSE item.text

RECURSIVE CollectTextParts(_, _, _)
\* The for loop of extract_text_content from index i on: text_parts grows by
\* item.get("text", "") for each dict item whose type is in TEXT_BLOCK_TYPES.
\* `item.get("type") in TEXT_BLOCK_TYPES` hashes the type value, so an
\* unhashable one raises TypeError.
CollectTextParts(items, i, text_parts) ==
    IF i > Len(items) THEN Returned(text_parts)
    ELSE LET item == items[i] IN
         IF item.k # "dict" THEN CollectTextParts(items, i + 1, text_parts)
         ELSE IF item.type = "unhashable" THEN Raised
         ELSE IF item.type \in TEXT_BLOCK_TYPES
              THEN CollectTextParts(items, i + 1, Append(text_parts, GetText(item)))
              ELSE CollectTextParts(items, i + 1, text_parts)

\* "".join(text_parts): TypeError unless every part is a str.
JoinParts(text_parts) ==
    IF \E i \in 1..Len(text_parts) : text_parts[i].t # "str" THEN Raised
    ELSE Returned(Flatten([i \in 1..Len(text_parts) |-> text_parts[i].s]))

extract_text_content_sep(c) ==
    IF c.t = "str" THEN Returned(c.s)
    ELSE IF c.t # "list" THEN Returned(<<>>)
    ELSE LET parts == CollectTextParts(c.items, 1, <<>>) IN
         IF parts.raised THEN Raised
         ELSE IF \E i \in 1..Len(parts.val) : parts.val[i].t # "str" THEN Raised
         ELSE Returned(Flatten([i \in 1..Len(parts.val) |->
                 IF i = 1 THEN parts.val[i].s ELSE <<" ">> \o parts.val[i].s]))

extract_text_content(c) ==
    IF c.t = "str" THEN Returned(c.s)
    ELSE IF c.t # "list" THEN Returned(<<>>)
    ELSE LET parts == CollectTextParts(c.items, 1, <<>>) IN
         IF parts.raised THEN Raised ELSE JoinParts(parts.val)

ExtractIdle ==
    /\ content_data = JNull
    /\ ext_pc = "idle"
    /\ ext_result = Returned(<<>>)

ToolIdle ==
    /\ tool_payload = JNull
    /\ tool_pc = "idle"
    /\ tool_html = Returned(<<>>)

FormatIdle ==
    /\ fmt_text = <<>>
    /\ fmt_pc = "idle"
    /\ fmt_html = <<>>

IndexIdle ==
    /\ idx_files = <<>>
    /\ idx_pc = "idle"
    /\ idx_tables = <<>>

\* no file, nothing returned
NoResult == [success |-> FALSE, message |-> "none"]
NoFile   == [exists |-> FALSE, content |-> <<>>]

SessionIdle ==
    /\ input_path = ""
    /\ input_file = <<>>
    /\ siblings = <<>>
    /\ calls = 0
    /\ pc = "idle"
    /\ lines = <<>>
    /\ line_no = 0
    /\ html_parts = <<>>
    /\ processed_user_messages = {}
    /\ processed_user_events = {}
    /\ processed_assistant_messages = {}
    /\ processed_events_other = {}
    /\ rendered_message_count = 0
    /\ result = NoResult
    /\ session_doc = NoFile
    /\ overview = NoFile

PathIdle ==
    /\ path_args = <<>>
    /\ path_pc = "idle"
    /\ path_dirs = {}
    /\ path_written = {}

\* The window after BatchConverterGUI.__init__: no rows, Select All checked,
\* no thread started
GuiIdle ==
    /\ tree = <<>>
    /\ tree_items = <<>>
    /\ check_all_var = TRUE
    /\ status = <<>>
    /\ after_queue = <<>>
    /\ threads = <<>>
    /\ documents = {}
    /\ listed = {}
    /\ notices = <<>>

ExtractInit ==
    /\ content_data \in ContentValues
    /\ ext_pc = "call"
    /\ ext_result = Returned(<<>>)
    /\ ToolIdle /\ FormatIdle /\ IndexIdle /\ SessionIdle /\ PathIdle /\ GuiIdle

ExtractCall ==
    /\ ext_pc = "call"
    /\ ext_result' = extract_text_content(content_data)
    /\ ext_pc' = "done"
    /\ UNCHANGED <<content_data, tool_vars, fmt_vars, idx_vars, ses_vars, path_vars, gui_vars>>

SpecExtract == ExtractInit /\ [][ExtractCall]_vars

-----------------------------------------------------------------------------
(* html.escape *)

\* html.escape(s) on one token: the five metacharacters (quote=True) become
\* entities.  A JSON string literal token carries its two double quotes.
EscapeToken(t) ==
    CASE t = "<"      -> "&lt;"
      [] t = ">"      -> "&gt;"
      [] t = "&"      -> "&amp;"
      [] t = "\"k\""  -> "&quot;k&quot;"
      [] t = "\"j\""  -> "&quot;j&quot;"
      [] OTHER        -> t

HtmlEscape(s) == [i \in 1..Len(s) |-> EscapeToken(s[i])]

-----------------------------------------------------------------------------
(* json.loads / json.dumps on the text of tool arguments.  The tokens of an *)
(* argument text are JSON's lexical tokens: the six punctuators, a number  *)
(* "1", the string literals "k" and "j", a blank "SP", and a bare word     *)
(* "bad" that is no JSON token.                                            *)

JNumV       == [t |-> "num"]
JStrV(tok)  == [t |-> "str", lit |-> tok]
JListV(l)   == [t |-> "list", items |-> l]
JDictV(kvs) == [t |-> "dict", pairs |-> kvs]   \* insertion-ordered (key, value)
JNullV      == [t |-> "null"]

StringLiterals == {"\"k\"", "\"j\""}

ParseFail == [ok |-> FALSE, val |-> JNullV, next |-> 0]
ParseOk(v, n) == [ok |-> TRUE, val |-> v, next |-> n]

RECURSIVE SkipWs(_, _)
\* the scanner's whitespace skip: first index >= i that holds no blank
SkipWs(toks, i) ==
    IF i <= Len(toks) /\ toks[i] \in {"SP", "NL"} THEN SkipWs(toks, i + 1) ELSE i

\* d[key] = value on an insertion-ordered dict: a repeated key keeps its
\* place and takes the new value
DictPut(kvs, key, v) ==
    IF \E n \in 1..Len(kvs) : kvs[n].key = key
    THEN [n \in 1..Len(kvs) |->
             IF kvs[n].key = key THEN [key |-> key, val |-> v] ELSE kvs[n]]
    ELSE Append(kvs, [key |-> key, val |-> v])

RECURSIVE ParseValue(_, _), ParseList(_, _, _, _), ParseDict(_, _, _, _)
\* json's scanner: one value starting at or after index i
ParseValue(toks, i) ==
    LET j == SkipWs(toks, i) IN
    IF j > Len(toks) THEN ParseFail
    ELSE IF toks[j] = "1" THEN ParseOk(JNumV, j + 1)
    ELSE IF toks[j] = "null" THEN ParseOk(JNullV, j + 1)
    ELSE IF toks[j] \in StringLiterals THEN ParseOk(JStrV(toks[j]), j + 1)
    ELSE IF toks[j] = "[" THEN ParseList(toks, j + 1, <<>>, TRUE)
    ELSE IF toks[j] = "{" THEN ParseDict(toks, j + 1, <<>>, TRUE)
    ELSE ParseFail

\* the elements of an array after "[" (first) or after a comma
ParseList(toks, i, acc, first) ==
    LET j == SkipWs(toks, i) IN
    IF j > Len(toks) THEN ParseFail
    ELSE IF first /\ toks[j] = "]" THEN ParseOk(JListV(acc), j + 1)
    ELSE LET v == ParseValue(toks, j) IN
         IF ~v.ok THEN ParseFail
         ELSE LET m == SkipWs(toks, v.next) IN
              IF m > Len(toks) THEN ParseFail
              ELSE IF toks[m] = "," THEN ParseList(toks, m + 1, Append(acc, v.val), FALSE)
              ELSE IF toks[m] = "]" THEN ParseOk(JListV(Append(acc, v.val)), m + 1)
              ELSE ParseFail

\* the members of an object after "{" (first) or after a comma
ParseDict(toks, i, acc, first) ==
    LET j == SkipWs(toks, i) IN
    IF j > Len(toks) THEN ParseFail
    ELSE IF first /\ toks[j] = "}" THEN ParseOk(JDictV(acc), j + 1)
    ELSE IF toks[j] \notin StringLiterals THEN ParseFail
    ELSE LET c == SkipWs(toks, j + 1) IN
         IF c > Len(toks) \/ toks[c] # ":" THEN ParseFail
         ELSE LET v == ParseValue(toks, c + 1) IN
              IF ~v.ok THEN ParseFail
              ELSE LET m == SkipWs(toks, v.next)
                       put == DictPut(acc, toks[j], v.val) IN
                   IF m > Len(toks) THEN ParseFail
                   ELSE IF toks[m] = "," THEN ParseDict(toks, m + 1, put, FALSE)
                   ELSE IF toks[m] = "}" THEN ParseOk(JDictV(put), m + 1)
                   ELSE ParseFail

\* json.loads(text): one value, then nothing but blanks ("Extra data" raises)
json_loads(toks) ==
    LET v == ParseValue(toks, 1) IN
    IF v.ok /\ SkipWs(toks, v.next) > Len(toks) THEN Returned(v.val) ELSE Raised

JSON_INDENT == 2

Indent_4(level) == [n \in 1..(4 * level) |-> "SP"]

Indent(level) == [n \in 1..(JSON_INDENT * level) |-> "SP"]

RECURSIVE json_dumps(_, _), DumpItems(_, _, _), DumpPairs(_, _, _)
\* json.dumps(v, indent=2) at nesting depth `level`
json_dumps(v, level) ==
    CASE v.t = "num"  -> <<"1">>
      [] v.t = "null" -> <<"null">>
      [] v.t = "str"  -> <<v.lit>>
      [] v.t = "list" ->
            IF v.items = <<>> THEN <<"[", "]">>
            ELSE <<"[", "NL">> \o DumpItems(v.items, 1, level + 1)
                    \o <<"NL">> \o Indent(level) \o <<"]">>
      [] v.t = "dict" ->
            IF v.pairs = <<>> THEN <<"{", "}">>
            ELSE <<"{", "NL">> \o DumpPairs(v.pairs, 1, level + 1)
                    \o <<"NL">> \o Indent(level) \o <<"}">>

DumpItems(items, n, level) ==
    Indent(level) \o json_dumps(items[n], level)
        \o (IF n = Len(items) THEN <<>>
            ELSE <<",", "NL">> \o DumpItems(items, n + 1, level))

DumpPairs(kvs, n, level) ==
    Indent(level) \o <<kvs[n].key, ":", "SP">> \o json_dumps(kvs[n].val, level)
        \o (IF n = Len(kvs) THEN <<>>
            ELSE <<",", "NL">> \o DumpPairs(kvs, n + 1, level))

-----------------------------------------------------------------------------
(* The tool blocks *)

TOOL_OUTPUT_TRUNCATE_LIMIT == 4000

\* A payload value that is a str (its text as tokens), another JSON value, or
\* an absent key.
PStr(s) == [t |-> "str", s |-> s]
PVal(v) == [t |-> "json", v |-> v]
PAbsent == [t |-> "absent"]

\* payload.get(key, default) for a str default
GetOr(field, default) == IF field = PAbsent THEN PStr(default) ELSE field

\* _format_tool_args: json.loads of a str (any other value is taken as it
\* is), json.dumps with indent 2; on any exception str(args).
_format_tool_args(args) ==
    IF args.t = "str"
    THEN LET parsed == json_loads(args.s) IN
         IF parsed.raised THEN args.s ELSE json_dumps(parsed.val, 0)
    ELSE json_dumps(args.v, 0)

\* html.escape(x) as the builders call it: AttributeError unless x is a str
EscapeArg(x) == IF x.t = "str" THEN Returned(HtmlEscape(x.s)) ELSE Raised

PreOpen(lang) == "<pre><code class=\"language-" \o lang \o "\">"
PreClose      == "</code></pre>"
DivClose      == "</div>"
ToolCallOpen  == "<div class=\"message type-tool-call\">"
ToolOutOpen   == "<div class=\"message type-tool-output\">"
ToolHeaderOpen == "<div class=\"tool-header\">Tool Call: "
ToolOutHeader == "<div class=\"tool-header\">Tool Call Output</div>"
TruncatedNote == "<div class=\"truncated\">... (truncated)</div>"

\* _build_tool_call_html(tool, args, lang)
_build_tool_call_html(tool, args, lang) ==
    LET pretty == _format_tool_args(args)
        name   == EscapeArg(tool) IN
    IF name.raised THEN Raised
    ELSE Returned(<<ToolCallOpen, ToolHeaderOpen>> \o name.val \o <<DivClose>>
                    \o <<PreOpen(lang)>> \o HtmlEscape(pretty) \o <<PreClose>>
                    \o <<DivClose>>)

\* _build_custom_tool_call_html(tool, inp)
_build_custom_tool_call_html(tool, inp) ==
    LET name == EscapeArg(tool)
        body == EscapeArg(inp) IN
    IF name.raised \/ body.raised THEN Raised
    ELSE Returned(<<ToolCallOpen, ToolHeaderOpen>> \o name.val \o <<DivClose>>
                    \o <<PreOpen("diff")>> \o body.val \o <<PreClose>>
                    \o <<DivClose>>)

OverLimit_geq(s) == Len(s) >= TOOL_OUTPUT_TRUNCATE_LIMIT

\* The truncation test `output and len(output) > LIMIT`
OverLimit(s) == Len(s) > TOOL_OUTPUT_TRUNCATE_LIMIT

\* _build_tool_output_html(output).  For a value that is no str, len() or
\* html.escape raises (None, numbers, lists and objects alike).
_build_tool_output_html(output) ==
    IF output.t # "str" THEN Raised
    ELSE LET cut  == OverLimit(output.s)
             kept == IF cut THEN SubSeq(output.s, 1, TOOL_OUTPUT_TRUNCATE_LIMIT)
                     ELSE output.s
             note == IF cut THEN <<TruncatedNote>> ELSE <<>> IN
         Returned(<<ToolOutOpen, ToolOutHeader, PreOpen("text")>>
                    \o HtmlEscape(kept) \o <<PreClose>> \o note \o <<DivClose>>)

-----------------------------------------------------------------------------
(* _build_response_item on the tool records *)

MaxArgLen == 3      \* longest argument text enumerated token by token
MaxOver   == 3      \* tool outputs run up to this many characters past the limit

ArgTokens == {"{", "}", "[", "]", ",", ":", "1", "\"k\"", "SP", "bad"}

\* Longer argument texts: {"k":1}, { "k":{"j":[1,"k"]} }, {"k":1,"k":[]},
\* {"k":1} 1 (extra data), and the text "{bad json" of the spec's example.
SampleArgTexts ==
    { <<"{", "\"k\"", ":", "1", "}">>,
      <<"{", "SP", "\"k\"", ":", "{", "\"j\"", ":", "[", "1", ",", "\"k\"", "]", "}", "SP", "}">>,
      <<"{", "\"k\"", ":", "1", ",", "\"k\"", ":", "[", "]", "}">>,
      <<"{", "\"k\"", ":", "1", "}", "1">>,
      <<"{", "bad", "SP", "bad">> }

\* argument values that are no str
SampleArgValues ==
    { JNullV, JNumV, JDictV(<<>>),
      JDictV(<<[key |-> "\"k\"", val |-> JListV(<<JNumV>>)]>>) }

ToolNames == {PAbsent, PStr(<<"shell">>), PStr(<<"<">>), PVal(JNullV)}

FunctionCallPayloads ==
    { [type |-> "function_call", name |-> n, arguments |-> a] :
        n \in ToolNames,
        a \in {PAbsent} \cup {PVal(v) : v \in SampleArgValues}
                \cup {PStr(x) : x \in SeqUpTo(ArgTokens, MaxArgLen) \cup SampleArgTexts} }

\* The character at position i of a sample output: "a" but for every p-th,
\* which is c.
OutputText(n, p, c) == [i \in 1..n |-> IF i % p = 0 THEN c ELSE "a"]

OutputLengths ==
    (0..MaxOver) \cup
    ((TOOL_OUTPUT_TRUNCATE_LIMIT - MaxOver)..(TOOL_OUTPUT_TRUNCATE_LIMIT + MaxOver))

FunctionCallOutputPayloads ==
    { [type |-> "function_call_output", output |-> o] :
        o \in {PAbsent, PVal(JNullV), PVal(JNumV)}
                \cup {PStr(OutputText(n, p, c)) :
                        n \in OutputLengths, p \in 1..3, c \in {"b", "<", "&"}} }

\* The function_call, custom_tool_call and function_call_output branches of
\* _build_response_item
BuildToolItem(payload) ==
    CASE payload.type = "function_call" ->
            _build_tool_call_html(GetOr(payload.name, <<"unknown">>),
                                  GetOr(payload.arguments, <<"{", "}">>), "json")
      [] payload.type = "custom_tool_call" ->
            _build_custom_tool_call_html(GetOr(payload.name, <<"unknown">>),
                                         GetOr(payload.input, <<>>))
      [] payload.type = "function_call_output" ->
            _build_tool_output_html(GetOr(payload.output, <<>>))

ToolCallInit ==
    /\ tool_payload \in FunctionCallPayloads
    /\ tool_pc = "call"
    /\ tool_html = Returned(<<>>)
    /\ ExtractIdle /\ FormatIdle /\ IndexIdle /\ SessionIdle /\ PathIdle /\ GuiIdle

ToolOutputInit ==
    /\ tool_payload \in FunctionCallOutputPayloads
    /\ tool_pc = "call"
    /\ tool_html = Returned(<<>>)
    /\ ExtractIdle /\ FormatIdle /\ IndexIdle /\ SessionIdle /\ PathIdle /\ GuiIdle

BuildToolCall ==
    /\ tool_pc = "call"
    /\ tool_html' = BuildToolItem(tool_payload)
    /\ tool_pc' = "done"
    /\ UNCHANGED <<tool_payload, ext_vars, fmt_vars, idx_vars, ses_vars, path_vars, gui_vars>>

SpecToolCall   == ToolCallInit /\ [][BuildToolCall]_vars
SpecToolOutput == ToolOutputInit /\ [][BuildToolCall]_vars

-----------------------------------------------------------------------------
(* Claims about the tool blocks *)

\* the tokens of a fragment strictly between its <pre><code ...> and
\* </code></pre> tokens (the fragments here hold one of each)
Position(frag, tok) == CHOOSE i \in 1..Len(frag) : frag[i] = tok
Count(frag, tok) == Cardinality({i \in 1..Len(frag) : frag[i] = tok})
CodeContent(frag, lang) ==
    SubSeq(frag, Position(frag, PreOpen(lang)) + 1, Position(frag, PreClose) - 1)

UnescapeToken(t) ==
    CASE t = "&lt;"           -> "<"
      [] t = "&gt;"           -> ">"
      [] t = "&amp;"          -> "&"
      [] t = "&quot;k&quot;"  -> "\"k\""
      [] t = "&quot;j&quot;"  -> "\"j\""
      [] OTHER                -> t
Unescape(s) == [i \in 1..Len(s) |-> UnescapeToken(s[i])]

\* C6: a tool output longer than 4000 characters renders its first 4000
\* characters (escaped) followed by the truncation marker; an output of at
\* most 4000 characters renders in full, with no marker.
C6_Truncation ==
    (tool_pc = "done" /\ tool_payload.type = "function_call_output"
        /\ tool_payload.output.t = "str") =>
        LET out  == tool_payload.output.s
            n    == IF Len(out) > 4000 THEN 4000 ELSE Len(out)
            frag == tool_html.val
            code == CodeContent(frag, "text") IN
        /\ ~tool_html.raised
        /\ frag[1] = ToolOutOpen
        /\ Count(frag, PreOpen("text")) = 1 /\ Count(frag, PreClose) = 1
        /\ Len(code) = n
        /\ \A i \in 1..n : UnescapeToken(code[i]) = out[i]
        /\ \A i \in 1..n : code[i] \notin {"<", ">", "&"}
        /\ (Len(out) > 4000) <=> (Count(frag, TruncatedNote) = 1)
        /\ (Len(out) > 4000) =>
               frag[Position(frag, PreClose) + 1] = TruncatedNote

\* an output of 4001 characters was cut to 4000 and marked
C6_Witness ==
    /\ tool_pc = "done"
    /\ tool_payload.type = "function_call_output"
    /\ tool_payload.output.t = "str"
    /\ Len(tool_payload.output.s) = 4001
    /\ ~tool_html.raised
    /\ Len(CodeContent(tool_html.val, "text")) = 4000
    /\ Count(tool_html.val, TruncatedNote) = 1

\* the layout json.dumps(indent=2) gives: after every line break the
\* indentation is two blanks per open bracket (one level less before a
\* closing bracket), and a blank follows every colon
Openers == {"{", "["}
Closers == {"}", "]"}
DepthAt(c, i) ==
    Cardinality({n \in 1..i : c[n] \in Openers})
        - Cardinality({n \in 1..i : c[n] \in Closers})
BlanksAfter(c, i) ==
    LET stop == CHOOSE n \in (i + 1)..(Len(c) + 1) :
                    /\ n = Len(c) + 1 \/ c[n] # "SP"
                    /\ \A m \in (i + 1)..(n - 1) : c[m] = "SP"
    IN stop - i - 1
TwoSpaceLayout(c) ==
    /\ \A i \in 1..Len(c) : c[i] = "NL" =>
          LET b == BlanksAfter(c, i) IN
          /\ i + b + 1 <= Len(c)
          /\ b = 2 * (DepthAt(c, i)
                        - (IF c[i + b + 1] \in Closers THEN 1 ELSE 0))
    /\ \A i \in 1..Len(c) : c[i] = ":" => BlanksAfter(c, i) = 1
    /\ \A i \in 1..Len(c) : c[i] = "," => (i < Len(c) /\ c[i + 1] = "NL")
    /\ \A i \in 1..Len(c) : c[i] \in Openers =>
          (i < Len(c) /\ (c[i + 1] = "NL" \/ c[i + 1] \in Closers))

\* C9: a function_call renders one tool-call block tagged language-json for
\* any arguments value, and building it does not raise: arguments that parse
\* as JSON appear pretty-printed with a 2-space indent (the same value, in
\* json.dumps's layout), arguments that do not parse appear as their literal
\* text.  The tool name is a string or absent.
C9_ToolCallBlock ==
    (tool_pc = "done" /\ tool_payload.type = "function_call"
        /\ tool_payload.name.t \in {"str", "absent"}) =>
        LET args == GetOr(tool_payload.arguments, <<"{", "}">>)
            frag == tool_html.val
            raw  == CodeContent(frag, "json")
            code == Unescape(raw) IN
        /\ ~tool_html.raised
        /\ frag[1] = ToolCallOpen
        /\ Count(frag, ToolCallOpen) = 1
        /\ Count(frag, PreOpen("json")) = 1 /\ Count(frag, PreClose) = 1
        /\ \A i \in 1..Len(raw) : raw[i] \notin {"<", ">", "&", "\"k\"", "\"j\""}
        /\ (args.t = "str" /\ json_loads(args.s).raised) => code = args.s
        /\ (args.t = "str" /\ ~json_loads(args.s).raised) =>
               /\ json_loads(code) = json_loads(args.s)
               /\ TwoSpaceLayout(code)
        /\ args.t = "json" =>
               /\ json_loads(code) = Returned(args.v)
               /\ TwoSpaceLayout(code)

\* the spec's example, arguments "{bad json", and a nested object that was
\* pretty-printed
C9_Witness ==
    /\ tool_pc = "done"
    /\ tool_payload.type = "function_call"
    /\ tool_payload.name = PStr(<<"shell">>)
    /\ ~tool_html.raised
    /\ \/ /\ tool_payload.arguments = PStr(<<"{", "bad", "SP", "bad">>)
          /\ CodeContent(tool_html.val, "json") = <<"{", "bad", "SP", "bad">>
       \/ /\ tool_payload.arguments = PStr(<<"{", "\"k\"", ":", "1", "}">>)
          /\ CodeContent(tool_html.val, "json") =
                <<"{", "NL", "SP", "SP", "&quot;k&quot;", ":", "SP", "1", "NL", "}">>

-----------------------------------------------------------------------------
(* format_content.  The tokens of a message text:                          *)
(*   "a"      a word            "NL"    a newline                          *)
(*   "FENCE"  three backticks   "TICK"  one backtick                       *)
(*   "BOLD"   two asterisks     "<"     a markup metacharacter             *)
(*   "H1".."H4"  one to four "#" and a blank                               *)
(*   "CTX"    the heading "# Context from my IDE setup:"                   *)
(*   "REQ"    the heading "# My request for Codex:"                        *)
(* and the placeholder texts themselves.  A text is tokenised greedily     *)
(* from the left, so no "TICK" stands right before a "TICK" or a "FENCE".  *)

MaxTextLen == 4     \* longest text enumerated token by token

CONTEXT_PLACEHOLDER == "__CONTEXT_PROTECTED__"
CODE_BLOCK_PLACEHOLDER_PREFIX == "__CODE_BLOCK_"

\* f"{CODE_BLOCK_PLACEHOLDER_PREFIX}{len(code_blocks)}__"
CodeKey(n) == CODE_BLOCK_PLACEHOLDER_PREFIX \o ToString(n) \o "__"

HeadingTokens == {"H1", "H2", "H3", "H4"}
HashInitial   == HeadingTokens \cup {"CTX", "REQ"}     \* texts starting with "#"

\* the tokens \w+ matches
IsWord(t) ==
    t \in {"a", CONTEXT_PLACEHOLDER} \cup {CodeKey(n) : n \in 0..(MaxTextLen + 4)}

\* "^" under re.MULTILINE: the start of the text or right after a newline
IsLineStart(s, i) == i = 1 \/ s[i - 1] = "NL"

Min(S) == CHOOSE x \in S : \A y \in S : x <= y

\* first index >= i whose token is in T, or Len(s) + 1
FirstIn(s, i, T) ==
    LET hits == {n \in i..Len(s) : s[n] \in T} IN
    IF hits = {} THEN Len(s) + 1 ELSE Min(hits)

\* first index >= i whose token is not in T, or Len(s) + 1
RECURSIVE RunEnd(_, _, _)
RunEnd(s, i, T) == IF i <= Len(s) /\ s[i] \in T THEN RunEnd(s, i + 1, T) ELSE i

NoContext == [found |-> FALSE, body |-> <<>>]

\* _extract_context_block: CONTEXT_SECTION_PATTERN.search, the section from
\* the first context heading at a line start up to (not including) the next
\* request heading at a line start, or the end of the text
_extract_context_block(text) ==
    LET starts == {i \in 1..Len(text) : text[i] = "CTX" /\ IsLineStart(text, i)} IN
    IF starts = {} THEN [text |-> text, context |-> NoContext]
    ELSE LET i    == Min(starts)
             ends == {j \in (i + 1)..Len(text) : text[j] = "REQ" /\ text[j - 1] = "NL"}
             j    == IF ends = {} THEN Len(text) + 1 ELSE Min(ends) IN
         [text    |-> SubSeq(text, 1, i - 1) \o <<CONTEXT_PLACEHOLDER, "NL">>
                        \o SubSeq(text, j, Len(text)),
          context |-> [found |-> TRUE, body |-> SubSeq(text, i + 1, j - 1)]]

PreLangOpen  == "<pre><code class=\"language-"
PreLangClose == "\">"

\* store_code_block's markup for one match
CodeHtml(lang, content) ==
    <<PreLangOpen>> \o (IF lang = <<>> THEN <<"text">> ELSE lang)
        \o <<PreLangClose>> \o content \o <<PreClose>>

RECURSIVE ScanCodeBlocks(_, _, _, _)
\* CODE_BLOCK_PATTERN.sub(store_code_block, text) from index i on: an opening
\* fence, an optional word (the language), an optional newline, the content
\* up to the next fence.  A fence with no later fence stays as it is.
ScanCodeBlocks(text, i, out, blocks) ==
    IF i > Len(text) THEN [text |-> out, blocks |-> blocks]
    ELSE IF text[i] # "FENCE"
         THEN ScanCodeBlocks(text, i + 1, Append(out, text[i]), blocks)
    ELSE LET l == RunEnd(text, i + 1, {t \in {text[n] : n \in 1..Len(text)} : IsWord(t)})
             k == IF l <= Len(text) /\ text[l] = "NL" THEN l + 1 ELSE l
             c == FirstIn(text, k, {"FENCE"}) IN
         IF c > Len(text)
         THEN ScanCodeBlocks(text, i + 1, Append(out, text[i]), blocks)
         ELSE ScanCodeBlocks(text, c + 1, Append(out, CodeKey(Len(blocks))),
                  Append(blocks, [key     |-> CodeKey(Len(blocks)),
                                  lang    |-> SubSeq(text, i + 1, l - 1),
                                  content |-> SubSeq(text, k, c - 1),
                                  html    |-> CodeHtml(SubSeq(text, i + 1, l - 1),
                                                       SubSeq(text, k, c - 1))]))

_extract_code_blocks(text) == ScanCodeBlocks(text, 1, <<>>, <<>>)

RECURSIVE CollapseRuns(_, _, _, _, _)
\* NEWLINES_BEFORE_HEADER_PATTERN (atLeast 2, a "#" must follow, one newline
\* stays) and NEWLINES_PATTERN (atLeast 3, two newlines stay)
CollapseRuns(s, i, atLeast, beforeHash, keep) ==
    IF i > Len(s) THEN <<>>
    ELSE IF s[i] # "NL" THEN <<s[i]>> \o CollapseRuns(s, i + 1, atLeast, beforeHash, keep)
    ELSE LET e == RunEnd(s, i, {"NL"}) IN
         IF /\ e - i >= atLeast
            /\ beforeHash => (e <= Len(s) /\ s[e] \in HashInitial)
         THEN [n \in 1..keep |-> "NL"] \o CollapseRuns(s, e, atLeast, beforeHash, keep)
         ELSE SubSeq(s, i, e - 1) \o CollapseRuns(s, e, atLeast, beforeHash, keep)

MY_REQUEST_HEADER_REPLACEMENT == "<h2>My request for Codex:</h2>"

\* MY_REQUEST_HEADER_PATTERN.sub
RequestHeader(s) ==
    [i \in 1..Len(s) |->
        IF s[i] = "REQ" /\ IsLineStart(s, i) THEN MY_REQUEST_HEADER_REPLACEMENT ELSE s[i]]

\* HEADER_PATTERNS: (heading token, opening tag, closing tag) in list order
HEADER_PATTERNS ==
    << [tok |-> "H1", open |-> "<h1>", close |-> "</h2>"],
       [tok |-> "H2", open |-> "<h2>", close |-> "</h3>"],
       [tok |-> "H3", open |-> "<h3>", close |-> "</h4>"],
       [tok |-> "H4", open |-> "<h4>", close |-> "</h4>"] >>

RECURSIVE HeaderSub(_, _, _)
\* pattern.sub(replacement, text) for one entry of HEADER_PATTERNS: a heading
\* token at a line start and the rest of its line
HeaderSub(s, i, pat) ==
    IF i > Len(s) THEN <<>>
    ELSE IF s[i] = pat.tok /\ IsLineStart(s, i)
         THEN LET e == FirstIn(s, i + 1, {"NL"}) IN
              <<pat.open>> \o SubSeq(s, i + 1, e - 1) \o <<pat.close>>
                  \o HeaderSub(s, e, pat)
         ELSE <<s[i]>> \o HeaderSub(s, i + 1, pat)

RECURSIVE StrongSub(_, _)
\* STRONG_PATTERN.sub: two "**" on one line
StrongSub(s, i) ==
    IF i > Len(s) THEN <<>>
    ELSE IF s[i] = "BOLD"
         THEN LET j == FirstIn(s, i + 1, {"BOLD", "NL"}) IN
              IF j <= Len(s) /\ s[j] = "BOLD"
              THEN <<"<strong>">> \o SubSeq(s, i + 1, j - 1) \o <<"</strong>">>
                       \o StrongSub(s, j + 1)
              ELSE <<s[i]>> \o StrongSub(s, i + 1)
         ELSE <<s[i]>> \o StrongSub(s, i + 1)

RECURSIVE Backticks(_)
\* the same text with every fence written as its three backticks
Backticks(s) ==
    IF s = <<>> THEN <<>>
    ELSE (IF Head(s) = "FENCE" THEN <<"TICK", "TICK", "TICK">> ELSE <<Head(s)>>)
            \o Backticks(Tail(s))

RECURSIVE InlineCodeSub(_, _)
\* INLINE_CODE_PATTERN.sub: a backtick, one or more other characters, a
\* backtick
InlineCodeSub(s, i) ==
    IF i > Len(s) THEN <<>>
    ELSE IF s[i] = "TICK" /\ i + 1 <= Len(s) /\ s[i + 1] # "TICK"
         THEN LET j == FirstIn(s, i + 2, {"TICK"}) IN
              IF j <= Len(s)
              THEN <<"<code class=\"inline-code\">">> \o SubSeq(s, i + 1, j - 1)
                       \o <<"</code>">> \o InlineCodeSub(s, j + 1)
              ELSE <<s[i]>> \o InlineCodeSub(s, i + 1)
         ELSE <<s[i]>> \o InlineCodeSub(s, i + 1)

\* _apply_markdown_formatting
_apply_markdown_formatting(text) ==
    LET t1 == CollapseRuns(text, 1, 2, TRUE, 1)
        t2 == CollapseRuns(t1, 1, 3, FALSE, 2)
        t3 == RequestHeader(t2)
        t4 == HeaderSub(t3, 1, HEADER_PATTERNS[1])
        t5 == HeaderSub(t4, 1, HEADER_PATTERNS[2])
        t6 == HeaderSub(t5, 1, HEADER_PATTERNS[3])
        t7 == HeaderSub(t6, 1, HEADER_PATTERNS[4])
        t8 == StrongSub(t7, 1) IN
    InlineCodeSub(Backticks(t8), 1)

\* _wrap_context_block
_wrap_context_block(context_content) ==
    <<"<details><summary>Context from my IDE setup</summary>", "NL",
      "<div class=\"context-content\">">> \o context_content
        \o <<"</div>", "NL", "</details>", "NL">>

RECURSIVE Replace(_, _, _)
\* str.replace(key, new): every occurrence of the token key
Replace(s, key, new) ==
    IF s = <<>> THEN <<>>
    ELSE (IF Head(s) = key THEN new ELSE <<Head(s)>>) \o Replace(Tail(s), key, new)

RECURSIVE ReinsertCode(_, _, _)
\* for key, code_html in code_blocks.items(): text = text.replace(key, code_html)
ReinsertCode(s, blocks, n) ==
    IF n > Len(blocks) THEN s
    ELSE ReinsertCode(Replace(s, blocks[n].key, blocks[n].html), blocks, n + 1)

\* format_content
format_content(text) ==
    IF text = <<>> THEN <<>>
    ELSE LET escaped == HtmlEscape(text)
             ctx     == _extract_context_block(escaped)
             code    == _extract_code_blocks(ctx.text)
             marked  == _apply_markdown_formatting(code.text)
             withCode == ReinsertCode(marked, code.blocks, 1) IN
         IF ctx.context.found
         THEN Replace(withCode, CONTEXT_PLACEHOLDER, _wrap_context_block(ctx.context.body))
         ELSE withCode

FormatTokens == {"a", "NL", "FENCE", "TICK", "BOLD", "H1", "CTX", "REQ", "<"}

\* a text as the greedy tokenisation of some string
WellTokenised(s) ==
    \A i \in 1..(Len(s) - 1) : s[i] = "TICK" => s[i + 1] \notin {"TICK", "FENCE"}

\* Longer texts: a fenced block with a language and a heading line inside, a
\* context section followed by the request and a fenced block, a fenced block
\* whose content names the next block's placeholder.
SampleMessages ==
    { <<"FENCE", "a", "NL", "H1", "a", "NL", "FENCE", "NL", "H1", "a">>,
      <<"CTX", "NL", "a", "NL", "REQ", "NL", "FENCE", "NL", "BOLD", "a", "BOLD", "FENCE">>,
      <<"FENCE", "NL", "__CODE_BLOCK_1__", "FENCE", "FENCE", "a", "NL", "a", "FENCE">>,
      <<"a", "NL", "NL", "NL", "NL", "H2", "a", "NL", "NL", "H3", "a", "NL", "H4", "a">> }

FormatInputs ==
    {s \in SeqUpTo(FormatTokens, MaxTextLen) : WellTokenised(s)} \cup SampleMessages

FormatInit ==
    /\ fmt_text \in FormatInputs
    /\ fmt_pc = "call"
    /\ fmt_html = <<>>
    /\ ExtractIdle /\ ToolIdle /\ IndexIdle /\ SessionIdle /\ PathIdle /\ GuiIdle

FormatCall ==
    /\ fmt_pc = "call"
    /\ fmt_html' = format_content(fmt_text)
    /\ fmt_pc' = "done"
    /\ UNCHANGED <<fmt_text, ext_vars, tool_vars, idx_vars, ses_vars, path_vars, gui_vars>>

SpecFormat == FormatInit /\ [][FormatCall]_vars

-----------------------------------------------------------------------------
(* The overview's entries: _collect_index_entries, _build_index_tree,      *)
(* _sort_entries, _render_entries_table.  A timestamp is a number (a later *)
(* time is a larger number) or None; a relative path is a folder ("" for   *)
(* the input root) and a file name.                                        *)

MaxEntries == 3     \* most converted sessions under the input root
MaxTime    == 2     \* timestamps run 1..MaxTime

None == 0           \* a session with no parseable timestamp

IndexFolders == {"", "sub"}
IndexNames   == {"s1", "s2", "s3"}

Entry(folder, name, ts) == [folder |-> folder, name |-> name, timestamp |-> ts]

\* the order of rel_path strings: "sub/s1" < "sub/s2" < "sub/s3" < "s1" < ...
NameRank(name) == CASE name = "s1" -> 1 [] name = "s2" -> 2 [] name = "s3" -> 3
RelPathRank(e) == (IF e.folder = "sub" THEN 0 ELSE 10) + NameRank(e.name)

\* datetime.min sorts before every timestamp of a log
DATETIME_MIN == 0

\* lambda e: e["timestamp"] or datetime.min
TimestampKey(e) == IF e.timestamp = None THEN DATETIME_MIN ELSE e.timestamp

\* sorted(entries, key=..., reverse=...): Python's sort is stable, also with
\* reverse=True.  keys[i] is the key of entries[i].
Sorted(entries, keys, reverse) ==
    LET Before(i, j) ==
            \/ (IF reverse THEN keys[i] > keys[j] ELSE keys[i] < keys[j])
            \/ (keys[i] = keys[j] /\ i < j)
        Place(i) == 1 + Cardinality({j \in 1..Len(entries) : Before(j, i)}) IN
    [n \in 1..Len(entries) |->
        entries[CHOOSE i \in 1..Len(entries) : Place(i) = n]]

\* the two sorts that end _collect_index_entries
_collect_index_entries(files) ==
    LET byPath == Sorted(files, [i \in 1..Len(files) |-> RelPathRank(files[i])], FALSE)
    IN Sorted(byPath, [i \in 1..Len(byPath) |-> TimestampKey(byPath[i])], TRUE)

\* _build_index_tree: node["items"] of one folder, in the order of entries
FolderItems(entries, folder) == SelectSeq(entries, LAMBDA e : e.folder = folder)

\* _sort_entries: sorted(..., reverse=False)
_sort_entries(entries) ==
    Sorted(entries, [i \in 1..Len(entries) |-> TimestampKey(entries[i])], FALSE)

\* _render_entries_table: one row per entry of _sort_entries(entries)
_render_entries_table(entries) == _sort_entries(entries)

\* _build_index_html: the root table and one table per folder section
_build_index_html(entries) ==
    [f \in IndexFolders |-> _render_entries_table(FolderItems(entries, f))]

\* the sessions os.walk may deliver: distinct files, any order
IndexFileLists ==
    {l \in SeqUpTo({Entry(f, n, ts) : f \in IndexFolders, n \in IndexNames,
                                      ts \in {None} \cup (1..MaxTime)}, MaxEntries) :
        \A i, j \in 1..Len(l) :
            (i # j) => (l[i].folder # l[j].folder \/ l[i].name # l[j].name)}

IndexInit ==
    /\ idx_files \in IndexFileLists
    /\ idx_pc = "call"
    /\ idx_tables = <<>>
    /\ ExtractIdle /\ ToolIdle /\ FormatIdle /\ SessionIdle /\ PathIdle /\ GuiIdle

WriteIndex ==
    /\ idx_pc = "call"
    /\ idx_tables' = _build_index_html(_collect_index_entries(idx_files))
    /\ idx_pc' = "done"
    /\ UNCHANGED <<idx_files, ext_vars, tool_vars, fmt_vars, ses_vars, path_vars, gui_vars>>

SpecIndex == IndexInit /\ [][WriteIndex]_vars

-----------------------------------------------------------------------------
(* convert_single_file: one session.  A line of the file is modelled by    *)
(* what json.loads makes of it: nothing (a blank line, or text that is no  *)
(* JSON), a value that is no object, or an object with its "type",         *)
(* "timestamp" and "payload" keys.  An absent key is the value PAbsent.    *)

MaxLines == 3       \* longest input file

BlankLine   == [k |-> "blank"]
InvalidLine == [k |-> "invalid"]                       \* {bad json
ValueLine(truthy) == [k |-> "value", truthy |-> truthy] \* 5, "abc", [1]; 0
DictLine(type, timestamp, payload) ==
    [k |-> "dict", type |-> type, timestamp |-> timestamp, payload |-> payload]

\* A payload that is an object, with the keys the builders read.
PayloadDict(d) == [t |-> "dict", d |-> d]
EmptyDict ==
    [type |-> "absent", role |-> PAbsent, message |-> PAbsent, content |-> PAbsent,
     summary |-> PAbsent, name |-> PAbsent, arguments |-> PAbsent,
     input |-> PAbsent, output |-> PAbsent, timestamp |-> PAbsent,
     model |-> PAbsent, effort |-> PAbsent]

\* _parse_json_line: the parsed value, None when json.loads raises
NoneData == [k |-> "none"]
_parse_json_line(line) ==
    IF line.k \in {"blank", "invalid"} THEN NoneData ELSE line

\* bool(data)
Truthy(data) ==
    CASE data.k = "none"  -> FALSE
      [] data.k = "value" -> data.truthy
      [] data.k = "dict"  -> TRUE

\* data.get("payload", {})
PayloadOf(data) == IF data.payload = PAbsent THEN PayloadDict(EmptyDict) ELSE data.payload

IsoStamp      == <<"2024-01-01T10:00:00Z">>
DisplayStamp  == <<"01.01.2024 10:00:00">>

\* _parse_iso_datetime: a datetime (a number, later is larger) or None
_parse_iso_datetime(iso_str) ==
    IF iso_str.t = "str" /\ iso_str.s = IsoStamp THEN 1 ELSE None

\* format_timestamp: the formatted time, or the value itself
format_timestamp(iso_str) ==
    IF iso_str.t # "str" THEN iso_str
    ELSE IF _parse_iso_datetime(iso_str) # None THEN PStr(DisplayStamp)
    ELSE iso_str

RECURSIVE get_session_date(_, _)
\* get_session_date from line i on.  `"timestamp" in data` and data.get raise
\* for a truthy value that is no object.
get_session_date(ls, i) ==
    IF i > Len(ls) THEN Returned(PStr(<<>>))
    ELSE LET data == _parse_json_line(ls[i]) IN
         IF ~Truthy(data) THEN get_session_date(ls, i + 1)
         ELSE IF data.k # "dict" THEN Raised
         ELSE IF data.timestamp # PAbsent
              THEN Returned(format_timestamp(data.timestamp))
         ELSE LET payload == PayloadOf(data) IN
              IF payload.t = "dict" /\ payload.d.timestamp # PAbsent
              THEN Returned(format_timestamp(payload.d.timestamp))
              ELSE get_session_date(ls, i + 1)

RECURSIVE _get_session_timestamp(_, _)
\* _get_session_timestamp from line i on: the first timestamp that parses
_get_session_timestamp(ls, i) ==
    IF i > Len(ls) THEN Returned(None)
    ELSE LET data == _parse_json_line(ls[i]) IN
         IF ~Truthy(data) THEN _get_session_timestamp(ls, i + 1)
         ELSE IF data.k # "dict" THEN Raised
         ELSE IF data.timestamp # PAbsent /\ _parse_iso_datetime(data.timestamp) # None
              THEN Returned(_parse_iso_datetime(data.timestamp))
         ELSE LET payload == PayloadOf(data) IN
              IF /\ payload.t = "dict"
                 /\ payload.d.timestamp # PAbsent
                 /\ _parse_iso_datetime(payload.d.timestamp) # None
              THEN Returned(_parse_iso_datetime(payload.d.timestamp))
              ELSE _get_session_timestamp(ls, i + 1)

\* bool(payload.get("message", "")): a message is a str or absent
TruthyValue(x) == x.t = "str" /\ x.s # <<>>

RECURSIVE _get_first_prompt(_, _)
\* _get_first_prompt from line i on: the message of the first event_msg
\* user_message with a truthy message.  data.get raises for a value that is
\* no object, payload.get for a payload that is no object.
_get_first_prompt(ls, i) ==
    IF i > Len(ls) THEN Returned(PStr(<<>>))
    ELSE LET data == _parse_json_line(ls[i]) IN
         IF ~Truthy(data) THEN _get_first_prompt(ls, i + 1)
         ELSE IF data.k # "dict" THEN Raised
         ELSE IF data.type # "event_msg" THEN _get_first_prompt(ls, i + 1)
         ELSE LET payload == PayloadOf(data) IN
              IF payload.t # "dict" THEN Raised
              ELSE IF payload.d.type = "user_message" /\ TruthyValue(payload.d.message)
                   THEN Returned(payload.d.message)
                   ELSE _get_first_prompt(ls, i + 1)

\* _extract_user_request_from_context: the text itself unless it holds a
\* context heading and a request section; then the section's body up to the
\* next heading line, stripped of surrounding newlines
_extract_user_request_from_context(text) ==
    IF \A i \in 1..Len(text) : text[i] # "CTX" THEN text
    ELSE LET starts == {i \in 1..Len(text) : text[i] = "REQ" /\ IsLineStart(text, i)} IN
         IF starts = {} THEN text
         ELSE LET i    == Min(starts)
                  ends == {j \in (i + 1)..Len(text) :
                              text[j] \in HashInitial /\ IsLineStart(text, j)}
                  j    == IF ends = {} THEN Len(text) + 1 ELSE Min(ends)
                  b    == RunEnd(text, i + 1, {"NL"})
                  e    == CHOOSE n \in (b - 1)..(j - 1) :
                              /\ \A m \in (n + 1)..(j - 1) : text[m] = "NL"
                              /\ n >= b => text[n] # "NL" IN
              SubSeq(text, b, e)

\* hash(text): equal texts have equal hashes, and the texts of one log are
\* taken to have pairwise different ones
Hash(text) == [hash_of |-> text]

\* _should_emit_text: whether to render, and seen_set after the call
_should_emit_text(text, seen_set) ==
    IF text = <<>> THEN [emit |-> FALSE, seen_set |-> seen_set]
    ELSE IF Hash(text) \in seen_set THEN [emit |-> FALSE, seen_set |-> seen_set]
    ELSE [emit |-> TRUE, seen_set |-> seen_set \cup {Hash(text)}]

\* The fragments of a session document
HtmlHeader(date_str)  == [kind |-> "header", date_str |-> date_str]
HtmlFooter            == [kind |-> "footer"]
ErrorHtml             == [kind |-> "error"]
ToolHtml(markup)      == [kind |-> "tool", markup |-> markup]
NoHtml                == [kind |-> "none"]           \* the empty string

get_html_header(date_str) == HtmlHeader(date_str)
get_html_footer == HtmlFooter

\* _build_message_html
_build_message_html(role, css_class, text) ==
    [kind |-> "message", css_class |-> css_class, role |-> role,
     content |-> format_content(text)]

\* _build_reasoning_html
_build_reasoning_html(text) ==
    [kind |-> "reasoning", content |-> format_content(text)]

\* Two keys of the configuration map sharing the set of the "user_message" key
processing_map_one_user_set ==
    [user_message  |-> [display_name |-> "User", css_class |-> "role-user-chat",
                        seen_set |-> "processed_user_messages"],
     agent_message |-> [display_name |-> "Assistant", css_class |-> "role-assistant",
                        seen_set |-> "processed_assistant_messages"],
     user          |-> [display_name |-> "User", css_class |-> "role-user-log",
                        seen_set |-> "processed_user_messages"],
     assistant     |-> [display_name |-> "Assistant", css_class |-> "role-assistant",
                        seen_set |-> "processed_assistant_messages"],
     developer     |-> [display_name |-> "Developer", css_class |-> "role-developer",
                        seen_set |-> "processed_events_other"],
     default       |-> [display_name |-> "Developer", css_class |-> "role-developer",
                        seen_set |-> "processed_events_other"]]

\* The "assistant" key with a set of its own
processing_map_own_assistant_set ==
    [user_message  |-> [display_name |-> "User", css_class |-> "role-user-chat",
                        seen_set |-> "processed_user_messages"],
     agent_message |-> [display_name |-> "Assistant", css_class |-> "role-assistant",
                        seen_set |-> "processed_assistant_messages"],
     user          |-> [display_name |-> "User", css_class |-> "role-user-log",
                        seen_set |-> "processed_user_events"],
     assistant     |-> [display_name |-> "Assistant", css_class |-> "role-assistant",
                        seen_set |-> "processed_events_other"],
     developer     |-> [display_name |-> "Developer", css_class |-> "role-developer",
                        seen_set |-> "processed_events_other"],
     default       |-> [display_name |-> "Developer", css_class |-> "role-developer",
                        seen_set |-> "processed_events_other"]]

\* processing_map: key -> (display name, CSS class, hash set); the icon is
\* left out
processing_map ==
    [user_message  |-> [display_name |-> "User", css_class |-> "role-user-chat",
                        seen_set |-> "processed_user_messages"],
     agent_message |-> [display_name |-> "Assistant", css_class |-> "role-assistant",
                        seen_set |-> "processed_assistant_messages"],
     user          |-> [display_name |-> "User", css_class |-> "role-user-log",
                        seen_set |-> "processed_user_events"],
     assistant     |-> [display_name |-> "Assistant", css_class |-> "role-assistant",
                        seen_set |-> "processed_assistant_messages"],
     developer     |-> [display_name |-> "Developer", css_class |-> "role-developer",
                        seen_set |-> "processed_events_other"],
     default       |-> [display_name |-> "Developer", css_class |-> "role-developer",
                        seen_set |-> "processed_events_other"]]

\* What a builder did: raised, or returned html_block with the four sets as
\* it left them
BuilderRaised(seen) == [raised |-> TRUE,  html_block |-> NoHtml, seen |-> seen]
Built(block, seen)  == [raised |-> FALSE, html_block |-> block,  seen |-> seen]

\* the tail shared by _build_event_message and _build_response_message
EmitMessage(config, text, seen) ==
    LET r == _should_emit_text(text, seen[config.seen_set]) IN
    IF ~r.emit THEN Built(NoHtml, seen)
    ELSE Built(_build_message_html(config.display_name, config.css_class, text),
               [seen EXCEPT ![config.seen_set] = r.seen_set])

\* _build_event_message.  payload.get raises for a payload that is no
\* object.
_build_event_message(payload, seen) ==
    IF payload.t # "dict" THEN BuilderRaised(seen)
    ELSE LET msg_type == payload.d.type
             text     == payload.d.message IN
         IF msg_type \notin DOMAIN processing_map \/ ~TruthyValue(text)
         THEN Built(NoHtml, seen)
         ELSE EmitMessage(processing_map[msg_type], text.s, seen)

\* role.lower() for the roles of the logs
Lower(role) ==
    CASE role = <<"User">>      -> "user"
      [] role = <<"user">>      -> "user"
      [] role = <<"assistant">> -> "assistant"
      [] role = <<"developer">> -> "developer"
      [] OTHER                  -> "unknown"

\* _build_response_message
_build_response_message(d, seen) ==
    LET role == GetOr(d.role, <<"unknown">>)
        text == extract_text_content(d.content) IN
    IF text.raised \/ role.t # "str" THEN BuilderRaised(seen)
    ELSE LET key    == Lower(role.s)
             config == IF key \in DOMAIN processing_map
                       THEN processing_map[key] ELSE processing_map["default"] IN
         IF text.val = <<>> THEN Built(NoHtml, seen)
         ELSE EmitMessage(config, text.val, seen)

\* _build_turn_context_message: the block made of "model" and "effort".  The
\* configuration map has no "turn_context" key, so the unpacking of its entry
\* raises.  convert_single_file does not import or call this builder.
_build_turn_context_message(payload, seen) ==
    IF payload.t # "dict" THEN BuilderRaised(seen)
    ELSE IF ~TruthyValue(payload.d.model) THEN Built(NoHtml, seen)
    ELSE IF "turn_context" \notin DOMAIN processing_map THEN BuilderRaised(seen)
    ELSE LET config == processing_map["turn_context"] IN
         Built(_build_message_html(config.display_name, config.css_class,
                                   <<"Used model:">> \o payload.d.model.s),
               seen)

\* payload.get("summary", [])
SummaryOf(d) == IF d.summary = PAbsent THEN JList(<<>>) ELSE d.summary

\* Reasoning summaries sent through _should_emit_text like messages
_build_response_item_dedup(payload, seen) ==
    IF payload.t # "dict" THEN BuilderRaised(seen)
    ELSE LET d == payload.d IN
         CASE d.type = "message" -> _build_response_message(d, seen)
           [] d.type = "reasoning" ->
                LET text == extract_text_content(SummaryOf(d)) IN
                IF text.raised THEN BuilderRaised(seen)
                ELSE LET r == _should_emit_text(text.val, seen.processed_events_other) IN
                     IF ~r.emit THEN Built(NoHtml, seen)
                     ELSE Built(_build_reasoning_html(text.val),
                                [seen EXCEPT !.processed_events_other = r.seen_set])
           [] d.type \in {"function_call", "custom_tool_call", "function_call_output"} ->
                LET block == BuildToolItem(d) IN
                IF block.raised THEN BuilderRaised(seen)
                ELSE Built(ToolHtml(block.val), seen)
           [] OTHER -> Built(NoHtml, seen)

\* _build_response_item
_build_response_item(payload, seen) ==
    IF payload.t # "dict" THEN BuilderRaised(seen)
    ELSE LET d == payload.d IN
         CASE d.type = "message" -> _build_response_message(d, seen)
           [] d.type = "reasoning" ->
                LET text == extract_text_content(SummaryOf(d)) IN
                IF text.raised THEN BuilderRaised(seen)
                ELSE IF text.val = <<>> THEN Built(NoHtml, seen)
                ELSE Built(_build_reasoning_html(text.val), seen)
           [] d.type \in {"function_call", "custom_tool_call", "function_call_output"} ->
                LET block == BuildToolItem(d) IN
                IF block.raised THEN BuilderRaised(seen)
                ELSE Built(ToolHtml(block.val), seen)
           [] OTHER -> Built(NoHtml, seen)

\* the four sets, by name
SeenSets ==
    [processed_user_messages      |-> processed_user_messages,
     processed_user_events        |-> processed_user_events,
     processed_assistant_messages |-> processed_assistant_messages,
     processed_events_other       |-> processed_events_other]

\* One pass of the main loop's try block on the parsed value: data.get raises
\* for a value that is no object.
BuildLine(data, seen) ==
    IF data.k # "dict" THEN BuilderRaised(seen)
    ELSE LET msg_type == data.type
             payload  == PayloadOf(data) IN
         CASE msg_type = "event_msg"     -> _build_event_message(payload, seen)
           [] msg_type = "response_item" -> _build_response_item(payload, seen)
           [] OTHER                      -> Built(NoHtml, seen)

Success == [success |-> TRUE,  message |-> "Done"]
EmptyLog == [success |-> FALSE, message |-> "Empty/Invalid Log"]
Failure == [success |-> FALSE, message |-> "str(e)"]

\* `if rendered_message_count == 0`
IsEmptyLog(count) == count = 0

\* One entry of the overview
IndexEntry(date, prompt, timestamp, file) ==
    [date |-> date, prompt |-> prompt, timestamp |-> timestamp, file |-> file]

\* The entry _collect_index_entries makes of one file: an exception of one
\* of the three scans of its lines is not caught
EntryOfFile(file, ls) ==
    LET date_display == get_session_date(ls, 1)
        timestamp    == _get_session_timestamp(ls, 1)
        prompt       == _get_first_prompt(ls, 1) IN
    IF date_display.raised \/ timestamp.raised \/ prompt.raised THEN Raised
    ELSE Returned(IndexEntry(IF date_display.val = PStr(<<>>) THEN PStr(<<"Unknown">>)
                              ELSE date_display.val,
                             _extract_user_request_from_context(prompt.val.s),
                             timestamp.val, file))

\* The names of the .jsonl files an input root may hold, in the order of
\* their relative paths
RootNames == <<"a.jsonl", "b.jsonl", "s.jsonl">>

\* The files under the input root: name -> lines and session document
InputRoot(path, file, doc, others) ==
    [n \in DOMAIN others \cup {path} |->
        IF n = path THEN [lines |-> file, doc |-> doc] ELSE others[n]]

\* An overview with an entry for every file of the input root, converted or
\* not
write_index_html_for_every_file(root) ==
    LET found == SelectSeq(RootNames, LAMBDA n : n \in DOMAIN root)
        made == [i \in 1..Len(found) |-> EntryOfFile(found[i], root[found[i]].lines)] IN
    IF \E i \in 1..Len(made) : made[i].raised THEN Raised
    ELSE LET entries == [i \in 1..Len(made) |-> made[i].val] IN
         Returned(_render_entries_table(
                      Sorted(entries,
                             [i \in 1..Len(entries) |-> TimestampKey(entries[i])], TRUE)))

\* write_index_html_for_folder: _collect_index_entries walks the input root,
\* skips every file whose session document does not exist, makes an entry of
\* each other file and sorts the entries by relative path, then (stable) by
\* timestamp, newest first (the result does not depend on the order of the
\* walk); _build_index_html renders them, all in the root folder's table.
write_index_html_for_folder(root) ==
    LET converted == SelectSeq(RootNames,
                         LAMBDA n : n \in DOMAIN root /\ root[n].doc.exists)
        made == [i \in 1..Len(converted) |->
                    EntryOfFile(converted[i], root[converted[i]].lines)] IN
    IF \E i \in 1..Len(made) : made[i].raised THEN Raised
    ELSE LET entries == [i \in 1..Len(made) |-> made[i].val] IN
         Returned(_render_entries_table(
                      Sorted(entries,
                             [i \in 1..Len(entries) |-> TimestampKey(entries[i])], TRUE)))

\* The lines of the sample logs
Hi == <<"Hi">>
Yo == <<"Yo">>

EventLine(type, message) ==
    DictLine("event_msg", PAbsent,
             PayloadDict([EmptyDict EXCEPT !.type = type, !.message = message]))
MessageLine(role, content) ==
    DictLine("response_item", PAbsent,
             PayloadDict([EmptyDict EXCEPT !.type = "message", !.role = role,
                                           !.content = content]))
ReasoningLine(summary) ==
    DictLine("response_item", PAbsent,
             PayloadDict([EmptyDict EXCEPT !.type = "reasoning", !.summary = summary]))
ToolOutputLine(output) ==
    DictLine("response_item", PAbsent,
             PayloadDict([EmptyDict EXCEPT !.type = "function_call_output",
                                           !.output = output]))
MetaLine == DictLine("session_meta", PStr(IsoStamp), PayloadDict(EmptyDict))

SessionLines ==
    { BlankLine, InvalidLine, ValueLine(TRUE), MetaLine,
      EventLine("user_message", PStr(Hi)),
      EventLine("user_message", PStr(Yo)),
      EventLine("user_message", PStr(<<>>)),
      EventLine("agent_message", PStr(Hi)),
      DictLine("event_msg", PAbsent, PStr(<<"x">>)),
      MessageLine(PStr(<<"user">>), JStr(Hi)),
      MessageLine(PStr(<<"assistant">>), JList(<<Block("output_text", JStr(Hi))>>)),
      ReasoningLine(JList(<<Block("summary_text", JStr(Hi))>>)),
      ToolOutputLine(PStr(<<>>)) }

SessionFiles == SeqUpTo(SessionLines, MaxLines)

SessionInit ==
    /\ input_path = "s.jsonl"
    /\ input_file \in SessionFiles
    /\ siblings = <<>>
    /\ calls = 1
    /\ pc = "start"
    /\ lines = <<>>
    /\ line_no = 0
    /\ html_parts = <<>>
    /\ processed_user_messages = {}
    /\ processed_user_events = {}
    /\ processed_assistant_messages = {}
    /\ processed_events_other = {}
    /\ rendered_message_count = 0
    /\ result = NoResult
    /\ session_doc = NoFile
    /\ overview = NoFile
    /\ ExtractIdle /\ ToolIdle /\ FormatIdle /\ IndexIdle /\ PathIdle /\ GuiIdle

KeepSeenSets == UNCHANGED seen_vars

InsertPart(parts, part) == <<parts[1], part>> \o Tail(parts)

\* html_parts.append(part)
AppendPart(parts, part) == Append(parts, part)

\* The four sets are locals of the call, each created by set()
ResetSeenSets ==
    /\ processed_user_messages' = {}
    /\ processed_user_events' = {}
    /\ processed_assistant_messages' = {}
    /\ processed_events_other' = {}

\* convert_single_file up to the main loop: read the lines, take the session
\* date, start html_parts with the header, empty the four sets.  An
\* exception here is caught by the outer handler, which returns.
StartConversion ==
    /\ pc = "start"
    /\ lines' = input_file
    /\ LET session_date == get_session_date(input_file, 1) IN
       IF session_date.raised
       THEN /\ result' = Failure
            /\ pc' = "done"
            /\ line_no' = 0
            /\ html_parts' = <<>>
       ELSE /\ html_parts' = <<get_html_header(session_date.val)>>
            /\ line_no' = 1
            /\ pc' = "loop"
            /\ result' = NoResult
    /\ ResetSeenSets
    /\ rendered_message_count' = 0
    /\ UNCHANGED <<input_path, input_file, siblings, calls, session_doc, overview,
                   ext_vars, tool_vars, fmt_vars, idx_vars,
                   path_vars, gui_vars>>

\* One iteration of the main loop: a blank line and a line that does not
\* parse are skipped; a block is appended and counted; an exception appends
\* the error fragment.
ProcessLine ==
    /\ pc = "loop"
    /\ line_no <= Len(lines)
    /\ LET data == _parse_json_line(lines[line_no]) IN
       IF data = NoneData
       THEN UNCHANGED <<html_parts, seen_vars, rendered_message_count>>
       ELSE LET built == BuildLine(data, SeenSets) IN
            /\ processed_user_messages' = built.seen.processed_user_messages
            /\ processed_user_events' = built.seen.processed_user_events
            /\ processed_assistant_messages' = built.seen.processed_assistant_messages
            /\ processed_events_other' = built.seen.processed_events_other
            /\ IF built.raised
               THEN /\ html_parts' = AppendPart(html_parts, ErrorHtml)
                    /\ UNCHANGED rendered_message_count
               ELSE IF built.html_block # NoHtml
               THEN /\ html_parts' = AppendPart(html_parts, built.html_block)
                    /\ rendered_message_count' = rendered_message_count + 1
               ELSE UNCHANGED <<html_parts, rendered_message_count>>
    /\ line_no' = line_no + 1
    /\ UNCHANGED <<input_path, input_file, siblings, calls, pc, lines, result,
                   session_doc, overview,
                   ext_vars, tool_vars, fmt_vars, idx_vars,
                   path_vars, gui_vars>>

\* After the last line: append the footer; with no block rendered return the
\* empty-log result; otherwise write the document, rebuild the overview and
\* return.  An exception while the overview is rebuilt is caught by the outer
\* handler.
Finish ==
    /\ pc = "loop"
    /\ line_no > Len(lines)
    /\ html_parts' = AppendPart(html_parts, get_html_footer)
    /\ pc' = "done"
    /\ IF IsEmptyLog(rendered_message_count)
       THEN /\ result' = EmptyLog
            /\ UNCHANGED <<session_doc, overview>>
       ELSE /\ session_doc' = [exists |-> TRUE, content |-> html_parts']
            /\ LET index == write_index_html_for_folder(
                                InputRoot(input_path, input_file, session_doc', siblings)) IN
               IF index.raised
               THEN /\ result' = Failure
                    /\ UNCHANGED overview
               ELSE /\ overview' = [exists |-> TRUE, content |-> index.val]
                    /\ result' = Success
    /\ UNCHANGED <<input_path, input_file, siblings, calls, lines, line_no,
                   seen_vars, rendered_message_count,
                   ext_vars, tool_vars, fmt_vars, idx_vars,
                   path_vars, gui_vars>>

Next == StartConversion \/ ProcessLine \/ Finish

Spec == SessionInit /\ [][Next]_vars

-----------------------------------------------------------------------------
(* convert_single_file on logs of further record kinds: a turn_context     *)
(* record with its model and effort, event_msg records of other inner      *)
(* types, reasoning and tool-output records that repeat.                   *)

TurnContextLine ==
    DictLine("turn_context", PAbsent,
             PayloadDict([EmptyDict EXCEPT !.model = PStr(<<"gpt-5.2-codex">>),
                                           !.effort = PStr(<<"medium">>)]))

KindLines ==
    { TurnContextLine,
      EventLine("user_message", PStr(Hi)),
      EventLine("user", PStr(Hi)),
      EventLine("assistant", PStr(Hi)),
      EventLine("token_count", PAbsent),
      EventLine("task_started", PStr(Hi)),
      ReasoningLine(JList(<<Block("summary_text", JStr(Hi))>>)),
      ToolOutputLine(PStr(Hi)) }

KindFiles == SeqUpTo(KindLines, MaxLines)

KindInit ==
    /\ input_path = "s.jsonl"
    /\ input_file \in KindFiles
    /\ siblings = <<>>
    /\ calls = 1
    /\ pc = "start"
    /\ lines = <<>>
    /\ line_no = 0
    /\ html_parts = <<>>
    /\ processed_user_messages = {}
    /\ processed_user_events = {}
    /\ processed_assistant_messages = {}
    /\ processed_events_other = {}
    /\ rendered_message_count = 0
    /\ result = NoResult
    /\ session_doc = NoFile
    /\ overview = NoFile
    /\ ExtractIdle /\ ToolIdle /\ FormatIdle /\ IndexIdle /\ PathIdle /\ GuiIdle

SpecKinds == KindInit /\ [][Next]_vars

-----------------------------------------------------------------------------
(* convert_single_file on logs with timestamps: at the root of a record, in *)
(* its payload, or both; a timestamp that parses, or a string that does not *)
(* parse and holds markup characters ("<soon>").                            *)

BadStamp == <<"<", "soon", ">">>

Stamps == {PAbsent, PStr(IsoStamp), PStr(BadStamp)}

StampLine(timestamp, payload_timestamp) ==
    DictLine("session_meta", timestamp,
             PayloadDict([EmptyDict EXCEPT !.timestamp = payload_timestamp]))

DateLines ==
    {StampLine(r, p) : r \in Stamps, p \in Stamps}
        \cup {BlankLine, EventLine("user_message", PStr(Hi)),
              EventLine("user_message", PStr(<<"<", "a", ">">>))}

DateFiles == SeqUpTo(DateLines, MaxLines)

DateInit ==
    /\ input_path = "s.jsonl"
    /\ input_file \in DateFiles
    /\ siblings = <<>>
    /\ calls = 1
    /\ pc = "start"
    /\ lines = <<>>
    /\ line_no = 0
    /\ html_parts = <<>>
    /\ processed_user_messages = {}
    /\ processed_user_events = {}
    /\ processed_assistant_messages = {}
    /\ processed_events_other = {}
    /\ rendered_message_count = 0
    /\ result = NoResult
    /\ session_doc = NoFile
    /\ overview = NoFile
    /\ ExtractIdle /\ ToolIdle /\ FormatIdle /\ IndexIdle /\ PathIdle /\ GuiIdle

SpecDates == DateInit /\ [][Next]_vars

-----------------------------------------------------------------------------
(* A batch: convert_single_file called again and again on the files of one *)
(* input root, as BatchConverterGUI.process_files does for the checked     *)
(* files, and as a later batch does for the same files.                    *)

MaxCalls == 3       \* most convert_single_file calls in a run

BatchNames == {"a.jsonl", "b.jsonl"}

\* The sample logs of a batch
BatchFiles ==
    { <<>>,
      <<InvalidLine>>,
      <<EventLine("user_message", PStr(Hi))>>,
      <<MetaLine, EventLine("user_message", PStr(Hi))>>,
      <<EventLine("agent_message", PStr(Hi)), EventLine("user_message", PStr(<<>>))>>,
      <<MetaLine, ValueLine(TRUE), EventLine("user_message", PStr(Hi))>>,
      <<MetaLine, EventLine("user_message", PStr(Yo)), ValueLine(TRUE)>>,
      <<ValueLine(TRUE), EventLine("user_message", PStr(Hi))>> }

BatchInit ==
    /\ input_path \in BatchNames
    /\ input_file \in BatchFiles
    /\ siblings \in [BatchNames \ {input_path} -> [lines : BatchFiles, doc : {NoFile}]]
    /\ calls = 1
    /\ pc = "start"
    /\ lines = <<>>
    /\ line_no = 0
    /\ html_parts = <<>>
    /\ processed_user_messages = {}
    /\ processed_user_events = {}
    /\ processed_assistant_messages = {}
    /\ processed_events_other = {}
    /\ rendered_message_count = 0
    /\ result = NoResult
    /\ session_doc = NoFile
    /\ overview = NoFile
    /\ ExtractIdle /\ ToolIdle /\ FormatIdle /\ IndexIdle /\ PathIdle /\ GuiIdle

\* The caller goes on to its next call: the same file again or another file
\* of the input root.  The files and the documents on disk stay as they are.
NextCall ==
    /\ pc = "done"
    /\ calls < MaxCalls
    /\ \E path \in DOMAIN siblings \cup {input_path} :
          LET root == InputRoot(input_path, input_file, session_doc, siblings) IN
          /\ input_path' = path
          /\ input_file' = root[path].lines
          /\ session_doc' = root[path].doc
          /\ siblings' = [n \in DOMAIN root \ {path} |-> root[n]]
    /\ calls' = calls + 1
    /\ pc' = "start"
    /\ UNCHANGED <<lines, line_no, html_parts, seen_vars, rendered_message_count,
                   result, overview, ext_vars, tool_vars, fmt_vars, idx_vars,
                   path_vars, gui_vars>>

NextBatch == StartConversion \/ ProcessLine \/ Finish \/ NextCall

SpecBatch == BatchInit /\ [][NextBatch]_vars

-----------------------------------------------------------------------------
(* convert_single_file: the path of the session document.  A path is the   *)
(* sequence of its names from the file system's root, a name the sequence  *)
(* of its pieces, "." being the piece that separates them:                 *)
(* "/in/a.b.jsonl" is << <<"in">>, <<"a", ".", "b", ".", "jsonl">> >>.     *)

Omitted      == [given |-> FALSE]
GivenDir(d)  == [given |-> TRUE, dir |-> d]

ParentDir == <<".", ".">>                       \* the name ".."
CONVERTED_SESSIONS == <<"converted_sessions">>

\* os.path.dirname
dirname(path) == SubSeq(path, 1, Len(path) - 1)

RECURSIVE CommonPrefixLen(_, _)
\* len(os.path.commonprefix([start_list, path_list]))
CommonPrefixLen(a, b) ==
    IF a = <<>> \/ b = <<>> THEN 0
    ELSE IF Head(a) # Head(b) THEN 0
    ELSE 1 + CommonPrefixLen(Tail(a), Tail(b))

\* os.path.relpath(path, start) for absolute paths: ".." for every name of
\* start below the common prefix, then the rest of path
relpath(path, start) ==
    LET i == CommonPrefixLen(start, path) IN
    [n \in 1..(Len(start) - i) |-> ParentDir] \o SubSeq(path, i + 1, Len(path))

splitext_name_first_dot(name) ==
    LET dots == {d \in 1..Len(name) :
                    name[d] = "." /\ \E k \in 1..(d - 1) : name[k] # "."} IN
    IF dots = {} THEN [root |-> name, ext |-> <<>>]
    ELSE LET d == CHOOSE x \in dots : \A y \in dots : x <= y IN
         [root |-> SubSeq(name, 1, d - 1), ext |-> SubSeq(name, d, Len(name))]

\* os.path.splitext on a name: the extension starts at the last "." that has
\* a piece other than "." before it
splitext_name(name) ==
    LET dots == {d \in 1..Len(name) :
                    name[d] = "." /\ \E k \in 1..(d - 1) : name[k] # "."} IN
    IF dots = {} THEN [root |-> name, ext |-> <<>>]
    ELSE LET d == CHOOSE x \in dots : \A y \in dots : y <= x IN
         [root |-> SubSeq(name, 1, d - 1), ext |-> SubSeq(name, d, Len(name))]

\* os.path.splitext on a path: only the last name is split
splitext(path) ==
    [root |-> dirname(path) \o <<splitext_name(path[Len(path)]).root>>,
     ext  |-> splitext_name(path[Len(path)]).ext]

\* `x or os.path.dirname(input_path)`
OrDirname(x, input_path_) == IF x.given THEN x.dir ELSE dirname(input_path_)

\* rel_base + ".html"
AddHtml(rel_base) ==
    dirname(rel_base) \o <<rel_base[Len(rel_base)] \o <<".", "html">> >>

\* output_path of convert_single_file
OutputPath(args) ==
    LET output_folder == OrDirname(args.output_folder, args.input_path)
        input_root    == OrDirname(args.input_root, args.input_path)
        rel_path      == relpath(args.input_path, input_root)
        rel_base      == splitext(rel_path).root IN
    output_folder \o <<CONVERTED_SESSIONS>> \o AddHtml(rel_base)

\* every prefix of a path: os.makedirs(output_dir, exist_ok=True)
Makedirs(dir) == {SubSeq(dir, 1, n) : n \in 0..Len(dir)}

SampleDirs ==
    { <<>>, << <<"in">> >>, << <<"in">>, <<"sub">> >>, << <<"in">>, <<"v1", ".", "2">> >>,
      << <<"out">> >> }

SampleNames ==
    { <<"s", ".", "jsonl">>, <<"a", ".", "b", ".", "jsonl">>, <<"log">>,
      <<".", "hidden">>, <<"s", ".", "JSONL">> }

PathArgs ==
    [input_path    : {d \o <<n>> : d \in SampleDirs, n \in SampleNames},
     output_folder : {Omitted} \cup {GivenDir(d) : d \in SampleDirs},
     input_root    : {Omitted} \cup {GivenDir(d) : d \in SampleDirs}]

PathInit ==
    /\ path_args \in PathArgs
    /\ path_pc = "call"
    /\ path_dirs = {}
    /\ path_written = {}
    /\ ExtractIdle /\ ToolIdle /\ FormatIdle /\ IndexIdle /\ SessionIdle /\ GuiIdle

\* A successful call: the directory of output_path is made and the document
\* is written at output_path
WriteDocument ==
    /\ path_pc = "call"
    /\ path_dirs' = Makedirs(dirname(OutputPath(path_args)))
    /\ path_written' = {OutputPath(path_args)}
    /\ path_pc' = "done"
    /\ UNCHANGED <<path_args, ext_vars, tool_vars, fmt_vars, idx_vars, ses_vars, gui_vars>>

SpecPaths == PathInit /\ [][WriteDocument]_vars

-----------------------------------------------------------------------------
(* BatchConverterGUI: the selection tree.  A folder is given by the rows   *)
(* load_files makes of it: item -> parent item, "" for the top level.      *)
(* Directory rows exist only for directories that hold a .jsonl file       *)
(* somewhere below them.                                                   *)

DirItems  == {"d1", "d2", "d3", "d4"}
FileItems == {"f1", "f2", "f3", "f4", "f5", "f6"}

EmptyFolder  == <<>>
OneFile      == "f1" :> ""
NestedFolder ==
    "f1" :> "" @@ "d1" :> "" @@ "f2" :> "d1" @@ "f3" :> "d1" @@ "d2" :> "d1"
        @@ "f4" :> "d2" @@ "f5" :> "d2" @@ "d3" :> "" @@ "d4" :> "d3" @@ "f6" :> "d4"

FlatFolder   == [i \in FileItems |-> ""]

SmallFolder  == "d1" :> "" @@ "f2" :> "d1" @@ "f1" :> ""

Folders == {EmptyFolder, OneFile, SmallFolder, FlatFolder, NestedFolder}

\* _find_jsonl_files: the files of a folder sorted by path, which is the
\* order of their rows in self.tree_items
_find_jsonl_files(folder) ==
    CASE folder = EmptyFolder  -> <<>>
      [] folder = OneFile      -> <<"f1">>
      [] folder = SmallFolder  -> <<"f2", "f1">>
      [] folder = FlatFolder   -> <<"f1", "f2", "f3", "f4", "f5", "f6">>
      [] folder = NestedFolder -> <<"f4", "f5", "f2", "f3", "f6", "f1">>

\* self.tree.get_children(item_id)
get_children(t, item_id) == {i \in DOMAIN t : t[i] = item_id}

RECURSIVE _set_item_state(_, _, _, _)
RECURSIVE SetChildren(_, _, _, _)
\* _set_item_state(item_id, state, cascade=True): the item and, for a
\* directory, every row below it
_set_item_state(items, t, item_id, state) ==
    IF item_id \notin DOMAIN items THEN items
    ELSE LET own == [items EXCEPT ![item_id] = state] IN
         IF item_id \in DirItems
         THEN SetChildren(own, t, get_children(t, item_id), state)
         ELSE own

\* the loop over the children in _set_item_state
SetChildren(items, t, ids, state) ==
    IF ids = {} THEN items
    ELSE LET child_id == CHOOSE c \in ids : TRUE IN
         SetChildren(_set_item_state(items, t, child_id, state), t,
                     ids \ {child_id}, state)

\* Parents left as they are
_update_parent_states_skipped(items, t, item_id) == items

RECURSIVE _update_parent_states(_, _, _)
\* _update_parent_states: every directory above the item takes the aggregate
\* of its children's states, from the nearest one upwards
_update_parent_states(items, t, item_id) ==
    LET parent_id == t[item_id] IN
    IF parent_id = "" \/ get_children(t, parent_id) = {} THEN items
    ELSE LET states == {items[c] : c \in get_children(t, parent_id)}
             new_state == IF states = {"checked"} THEN "checked"
                          ELSE IF states = {"unchecked"} THEN "unchecked"
                          ELSE "partial" IN
         _update_parent_states([items EXCEPT ![parent_id] = new_state], t, parent_id)

\* the end of toggle_check (_sync_select_all_state): Select All is checked
\* when there is a file row and every file row is checked
AllFilesChecked(items) ==
    LET file_states == {i \in DOMAIN items : i \notin DirItems} IN
    file_states # {} /\ \A i \in file_states : items[i] = "checked"

\* load_files(folder): the rows are deleted, then one row is made for every
\* .jsonl file and every directory above it, all checked, the files with the
\* status "Waiting...".  A folder that does not exist or holds no .jsonl
\* file leaves no row.
load_files(folder) ==
    /\ tree' = folder
    /\ tree_items' = [i \in DOMAIN folder |-> "checked"]
    /\ status' = [i \in DOMAIN folder |-> IF i \in DirItems THEN "" ELSE "Waiting..."]
    /\ UNCHANGED <<check_all_var, after_queue, threads, documents, listed, notices>>
    /\ UNCHANGED <<ext_vars, tool_vars, fmt_vars, idx_vars, ses_vars, path_vars>>

LoadFiles == \E folder \in Folders : load_files(folder)

\* toggle_check with the focus on selected_id
toggle_check(selected_id) ==
    /\ selected_id \in DOMAIN tree_items
    /\ LET new_state == IF tree_items[selected_id] = "checked"
                        THEN "unchecked" ELSE "checked"
           cascaded  == _set_item_state(tree_items, tree, selected_id, new_state) IN
       /\ tree_items' = _update_parent_states(cascaded, tree, selected_id)
       /\ check_all_var' = AllFilesChecked(tree_items')
    /\ UNCHANGED <<tree, status, after_queue, threads, documents, listed, notices>>
    /\ UNCHANGED <<ext_vars, tool_vars, fmt_vars, idx_vars, ses_vars, path_vars>>

ToggleCheck == \E selected_id \in DirItems \cup FileItems : toggle_check(selected_id)

\* A click on Select All: the checkbox flips its variable, then toggle_all
\* sets every top-level row, cascading
ToggleAll ==
    /\ check_all_var' = ~check_all_var
    /\ LET target_state == IF check_all_var' THEN "checked" ELSE "unchecked" IN
       tree_items' = SetChildren(tree_items, tree, get_children(tree, ""), target_state)
    /\ UNCHANGED <<tree, status, after_queue, threads, documents, listed, notices>>
    /\ UNCHANGED <<ext_vars, tool_vars, fmt_vars, idx_vars, ses_vars, path_vars>>

TreeInit ==
    /\ GuiIdle
    /\ ExtractIdle /\ ToolIdle /\ FormatIdle /\ IndexIdle /\ SessionIdle /\ PathIdle

NextTree == LoadFiles \/ ToggleCheck \/ ToggleAll

SpecTree == TreeInit /\ [][NextTree]_vars

-----------------------------------------------------------------------------
(* BatchConverterGUI: a batch.  start_batch starts a thread that runs      *)
(* process_files on the files checked at that moment; the thread hands its *)
(* status updates to root.after, and the UI thread runs them one by one.   *)
(* The converter callback is taken by its effects on disk: it writes the   *)
(* session document, collects the overview's entries (the files whose      *)
(* document exists), writes the overview, and returns success; or it       *)
(* writes nothing and returns failure.  A thread's record keeps, besides   *)
(* the locals of process_files, the results the callback returned and the  *)
(* callbacks the thread handed to root.after so far.                       *)

Threads == <<"t1", "t2">>      \* the threads a run may start, in this order

StatusUpdate(item_id, status_text) ==
    [kind |-> "status", id |-> item_id, text |-> status_text]
BatchComplete(count) == [kind |-> "notice", count |-> count]

\* Every result shown as "Done"
FinalStatusAlwaysDone(success) == "Done"

\* final_status = "Done" if success else "Error"
FinalStatus(success) == IF success THEN "Done" ELSE "Error"

\* start_batch's to_process: the checked file rows, in the order of
\* self.tree_items
to_process ==
    SelectSeq(_find_jsonl_files(tree), LAMBDA f : tree_items[f] = "checked")

\* start_batch: with no file checked a warning is shown; otherwise a thread
\* is started on to_process.  Nothing in it looks at the threads running.
StartBatch ==
    /\ Len(threads) < Len(Threads)
    /\ IF to_process = <<>>
       THEN UNCHANGED threads
       ELSE threads' = Append(threads, [files |-> to_process, i |-> 1,
                                        pc |-> "converting", results |-> <<>>,
                                        entries |-> {}, posted |-> <<>>])
    /\ UNCHANGED <<tree, tree_items, check_all_var, status, after_queue,
                   documents, listed, notices>>
    /\ UNCHANGED <<ext_vars, tool_vars, fmt_vars, idx_vars, ses_vars, path_vars>>

\* One step of process_files in thread t
ProcessFiles(t) ==
    /\ t \in DOMAIN threads
    /\ LET self == threads[t]
           item == self.files[self.i] IN
       CASE self.pc = "converting" ->
              \* self.update_status(item["id"], "Converting...")
              /\ after_queue' = Append(after_queue, StatusUpdate(item, "Converting..."))
              /\ threads' = [threads EXCEPT
                               ![t].posted = Append(@, StatusUpdate(item, "Converting...")),
                               ![t].pc = "call"]
              /\ UNCHANGED <<documents, listed>>
         [] self.pc = "call" ->
              \* the callback starts: it writes the session document, or it
              \* returns failure
              \E success \in BOOLEAN :
                 /\ threads' = [threads EXCEPT
                                  ![t].results = Append(@, success),
                                  ![t].pc = IF success THEN "collect" ELSE "final"]
                 /\ documents' = IF success THEN documents \cup {item} ELSE documents
                 /\ UNCHANGED <<after_queue, listed>>
         [] self.pc = "collect" ->
              \* _collect_index_entries: the files whose document exists
              /\ threads' = [threads EXCEPT ![t].entries = documents,
                                            ![t].pc = "write_index"]
              /\ UNCHANGED <<after_queue, documents, listed>>
         [] self.pc = "write_index" ->
              \* the overview is written from the entries collected
              /\ listed' = self.entries
              /\ threads' = [threads EXCEPT ![t].pc = "final"]
              /\ UNCHANGED <<after_queue, documents>>
         [] self.pc = "final" ->
              \* self.update_status(item["id"], final_status); next file
              /\ after_queue' = Append(after_queue,
                      StatusUpdate(item, FinalStatus(self.results[self.i])))
              /\ threads' = [threads EXCEPT
                               ![t].posted = Append(@,
                                   StatusUpdate(item, FinalStatus(self.results[self.i]))),
                               ![t].i = IF self.i < Len(self.files) THEN @ + 1 ELSE @,
                               ![t].pc = IF self.i < Len(self.files)
                                         THEN "converting" ELSE "notice"]
              /\ UNCHANGED <<documents, listed>>
         [] self.pc = "notice" ->
              \* self.root.after(0, ... "Finished processing N files.")
              /\ after_queue' = Append(after_queue, BatchComplete(Len(self.files)))
              /\ threads' = [threads EXCEPT
                               ![t].posted = Append(@, BatchComplete(Len(self.files))),
                               ![t].pc = "finished"]
              /\ UNCHANGED <<documents, listed>>
         [] self.pc = "finished" -> FALSE
    /\ UNCHANGED <<tree, tree_items, check_all_var, status, notices>>
    /\ UNCHANGED <<ext_vars, tool_vars, fmt_vars, idx_vars, ses_vars, path_vars>>

Worker == \E t \in 1..Len(Threads) : ProcessFiles(t)

\* The UI thread runs the oldest callback of root.after:
\* _internal_update_status sets the row's status (a row that is gone raises
\* TclError, which is passed over), the notice shows the message box
UiDispatch ==
    /\ after_queue # <<>>
    /\ after_queue' = Tail(after_queue)
    /\ LET callback == Head(after_queue) IN
       IF callback.kind = "status"
       THEN /\ status' = IF callback.id \in DOMAIN status
                         THEN [status EXCEPT ![callback.id] = callback.text]
                         ELSE status
            /\ UNCHANGED notices
       ELSE /\ notices' = Append(notices, callback.count)
            /\ UNCHANGED status
    /\ UNCHANGED <<tree, tree_items, check_all_var, threads, documents, listed>>
    /\ UNCHANGED <<ext_vars, tool_vars, fmt_vars, idx_vars, ses_vars, path_vars>>

\* The window with a folder loaded
LoadedInit ==
    /\ tree = SmallFolder
    /\ tree_items = [i \in DOMAIN SmallFolder |-> "checked"]
    /\ status = [i \in DOMAIN SmallFolder |-> IF i \in DirItems THEN "" ELSE "Waiting..."]
    /\ check_all_var = TRUE
    /\ after_queue = <<>>
    /\ threads = <<>>
    /\ documents = {}
    /\ listed = {}
    /\ notices = <<>>
    /\ ExtractIdle /\ ToolIdle /\ FormatIdle /\ IndexIdle /\ SessionIdle /\ PathIdle

NextGui == ToggleCheck \/ StartBatch \/ Worker \/ UiDispatch

SpecGui == LoadedInit /\ [][NextGui]_vars

-----------------------------------------------------------------------------
(* Claims about format_content and the overview *)

\* s holds the tokens of part, contiguously
ContainsSeq(s, part) ==
    \E i \in 0..(Len(s) - Len(part)) : SubSeq(s, i + 1, i + Len(part)) = part

\* C5: for any text with a fenced code block, format_content puts the
\* content between the fences, unchanged after escaping, inside one
\* language-tagged <pre><code> element; nothing else rewrites it.
C5_FencedContentKept ==
    fmt_pc = "done" =>
        LET fenced == _extract_code_blocks(HtmlEscape(fmt_text)).blocks IN
        /\ \A n \in 1..Len(fenced) : ContainsSeq(fmt_html, fenced[n].html)
        /\ Count(fmt_html, PreLangOpen) = Len(fenced)

\* C8: in every folder group of the rendered overview the rows are ordered by
\* timestamp, newest first, and rows without a timestamp come last.
C8_NewestFirst ==
    idx_pc = "done" =>
        \A f \in IndexFolders :
            \A i, j \in 1..Len(idx_tables[f]) :
                i < j =>
                    LET a == idx_tables[f][i]
                        b == idx_tables[f][j] IN
                    /\ (a.timestamp # None /\ b.timestamp # None)
                           => a.timestamp >= b.timestamp
                    /\ a.timestamp = None => b.timestamp = None

-----------------------------------------------------------------------------
(* Claims about extract_text_content *)

\* The blocks of a list that are text blocks of an accepted type
AcceptedBlocks(items) ==
    SelectSeq(items, LAMBDA it : it.k = "dict" /\ it.type \in TEXT_BLOCK_TYPES)

\* A list every accepted block of which carries a string text (or none), and
\* no block of which has an unhashable type
WellTypedList(items) ==
    \A i \in 1..Len(items) :
        items[i].k = "dict" =>
            /\ items[i].type # "unhashable"
            /\ items[i].type \in TEXT_BLOCK_TYPES =>
                   items[i].text.t \in {"absent", "str"}

RECURSIVE ConcatTexts(_)
ConcatTexts(blocks) ==
    IF blocks = <<>> THEN <<>>
    ELSE (IF Head(blocks).text.t = "str" THEN Head(blocks).text.s ELSE <<>>)
            \o ConcatTexts(Tail(blocks))

\* C3: extract_text_content returns a bare string unchanged; for a list it
\* returns the texts of exactly the blocks of an accepted type, concatenated
\* in list order with no separator; for any other shape it returns the empty
\* string.
C3_ExtractValue ==
    ext_pc = "done" =>
        /\ content_data.t = "str" => ext_result = Returned(content_data.s)
        /\ content_data.t \notin {"str", "list"} => ext_result = Returned(<<>>)
        /\ (content_data.t = "list" /\ WellTypedList(content_data.items)) =>
               ext_result = Returned(ConcatTexts(AcceptedBlocks(content_data.items)))

\* the spec's example: a text block "hello" followed by an image block
C3_Witness ==
    /\ ext_pc = "done"
    /\ content_data = JList(<<Block("text", JStr(<<"hello">>)), Block("image", NoKey)>>)
    /\ ext_result = Returned(<<"hello">>)

\* C4: extract_text_content never raises, whatever JSON value it is given.
C4_NeverRaises == ext_pc = "done" => ~ext_result.raised

-----------------------------------------------------------------------------
(* Claims about one session *)

\* The dedup stream a message record is submitted to, named by the CSS class
\* of its blocks; "none" for any other line
StreamOfLine(line) ==
    IF line.k # "dict" THEN "none"
    ELSE IF PayloadOf(line).t # "dict" THEN "none"
    ELSE LET d == PayloadOf(line).d IN
         CASE line.type = "event_msg" /\ d.type = "user_message"  -> "role-user-chat"
           [] line.type = "event_msg" /\ d.type = "agent_message" -> "role-assistant"
           [] line.type = "response_item" /\ d.type = "message"
                /\ d.role = PStr(<<"user">>)                      -> "role-user-log"
           [] line.type = "response_item" /\ d.type = "message"
                /\ d.role = PStr(<<"assistant">>)                 -> "role-assistant"
           [] OTHER                                               -> "none"

\* The text a message record carries
TextOfLine(line) ==
    LET d == PayloadOf(line).d IN
    IF line.type = "event_msg"
    THEN (IF d.message.t = "str" THEN d.message.s ELSE <<>>)
    ELSE (IF d.content.t = "str" THEN d.content.s
          ELSE IF d.content.t = "list" /\ WellTypedList(d.content.items)
               THEN ConcatTexts(AcceptedBlocks(d.content.items))
               ELSE <<>>)

DedupStreams == {"role-user-chat", "role-user-log", "role-assistant"}

\* the lines taken so far that submit text to stream
Submitted(stream, text) ==
    {i \in 1..(line_no - 1) :
        StreamOfLine(lines[i]) = stream /\ TextOfLine(lines[i]) = text}

\* the message blocks of stream appended so far that show text
Rendered(stream, text) ==
    {n \in 1..Len(html_parts) :
        /\ html_parts[n].kind = "message"
        /\ html_parts[n].css_class = stream
        /\ html_parts[n].content = format_content(text)}

\* C1: within one session a non-empty text is rendered once in every stream
\* it was submitted to, however often it was submitted there: a second
\* submission to the same stream adds nothing, a submission to another stream
\* is not suppressed.
C1_StreamScopedDedup ==
    (pc \in {"loop", "done"} /\ line_no > 0) =>
        \A stream \in DedupStreams : \A text \in {Hi, Yo} :
            Cardinality(Rendered(stream, text)) =
                IF Submitted(stream, text) = {} THEN 0 ELSE 1

\* "Hi" twice as an event_msg user_message and once as a response_item
\* message of role user: one block in each of the two streams
C1_Witness ==
    /\ pc = "done"
    /\ input_file = <<EventLine("user_message", PStr(Hi)),
                      EventLine("user_message", PStr(Hi)),
                      MessageLine(PStr(<<"user">>), JStr(Hi))>>
    /\ rendered_message_count = 2
    /\ Cardinality(Rendered("role-user-chat", Hi)) = 1
    /\ Cardinality(Rendered("role-user-log", Hi)) = 1

\* the call returned after the main loop had taken every line
AtEnd == pc = "done" /\ line_no = Len(lines) + 1

\* a record of a recognized kind whose content is not empty
NonEmptyRecord(line) ==
    IF StreamOfLine(line) # "none" THEN TextOfLine(line) # <<>>
    ELSE IF line.k # "dict" THEN FALSE
    ELSE IF line.type # "response_item" \/ PayloadOf(line).t # "dict" THEN FALSE
    ELSE LET d == PayloadOf(line).d IN
         CASE d.type = "reasoning" ->
                /\ SummaryOf(d).t = "list"
                /\ WellTypedList(SummaryOf(d).items)
                /\ ConcatTexts(AcceptedBlocks(SummaryOf(d).items)) # <<>>
           [] d.type = "function_call_output" -> d.output.t = "str" /\ d.output.s # <<>>
           [] d.type = "function_call"    -> d.arguments # PAbsent \/ d.name # PAbsent
           [] d.type = "custom_tool_call" -> d.input # PAbsent \/ d.name # PAbsent
           [] OTHER -> FALSE

\* a message record whose text an earlier line submitted to the same stream
SuppressedRecord(i) ==
    /\ StreamOfLine(lines[i]) # "none"
    /\ TextOfLine(lines[i]) # <<>>
    /\ \E j \in 1..(i - 1) :
          /\ StreamOfLine(lines[j]) = StreamOfLine(lines[i])
          /\ TextOfLine(lines[j]) = TextOfLine(lines[i])

\* C2: at End the rendered-block count is the number of recognized records
\* with non-empty content minus the number of message records suppressed by
\* deduplication in their own stream.
C2_RenderedCount ==
    AtEnd =>
        rendered_message_count =
            Cardinality({i \in 1..Len(lines) : NonEmptyRecord(lines[i])})
                - Cardinality({i \in 1..Len(lines) : SuppressedRecord(i)})

\* C7: a session that rendered no block returns (False, "Empty/Invalid Log"),
\* has written no session document and has left its input as it was; a
\* session document is never written with zero blocks.
C7_EmptySession ==
    /\ (pc = "done" /\ rendered_message_count = 0) =>
           /\ result = EmptyLog
           /\ ~session_doc.exists
           /\ input_file = lines
    /\ session_doc.exists => rendered_message_count > 0

\* the lines taken so far whose block could not be built
FailedLines ==
    {i \in 1..(line_no - 1) :
        /\ _parse_json_line(lines[i]) # NoneData
        /\ BuildLine(lines[i], SeenSets).raised}

\* C10: a failure on one line never aborts the session: the call returns only
\* after the main loop has taken every line, a line that is no JSON adds
\* nothing, and every record whose block cannot be built adds one error
\* fragment.
C10_LineFailureIsLocal ==
    /\ pc = "done" => AtEnd
    /\ pc \in {"loop", "done"} =>
           Count(html_parts, ErrorHtml) = Cardinality(FailedLines)

-----------------------------------------------------------------------------
(* Claims about a batch of calls *)

\* the hashes of the texts the lines taken so far in this call carry
HashesOfThisCall ==
    {Hash(TextOfLine(lines[i])) :
        i \in {j \in 1..(line_no - 1) : StreamOfLine(lines[j]) # "none"}}

\* C11: the four dedup sets belong to one call.  In every call of a run they
\* hold nothing when the main loop starts and only hashes of texts of this
\* call's own lines afterwards, so every non-empty text a call submits to a
\* stream is rendered in that call, whatever earlier calls rendered.
C11_FreshDedupSets ==
    (pc \in {"loop", "done"} /\ line_no > 0) =>
        /\ (processed_user_messages \cup processed_user_events
              \cup processed_assistant_messages \cup processed_events_other)
                \subseteq HashesOfThisCall
        /\ \A i \in 1..(line_no - 1) :
              (StreamOfLine(lines[i]) # "none" /\ TextOfLine(lines[i]) # <<>>) =>
                  Rendered(StreamOfLine(lines[i]), TextOfLine(lines[i])) # {}

\* a second call on a file whose first call rendered "Hi" and wrote the
\* document: "Hi" is rendered again
C11_Witness ==
    /\ calls = 2
    /\ pc = "loop"
    /\ line_no = 2
    /\ lines = <<EventLine("user_message", PStr(Hi))>>
    /\ session_doc.exists
    /\ Rendered("role-user-chat", Hi) # {}
    /\ processed_user_messages = {Hash(Hi)}

-----------------------------------------------------------------------------
(* Claims about the path of the session document *)

IsPrefix(a, b) == Len(a) <= Len(b) /\ SubSeq(b, 1, Len(a)) = a

\* html_name is name with its extension, if it has one, replaced by .html
ExtensionReplaced(name, html_name) ==
    \E k \in 1..Len(name) :
        LET ext == SubSeq(name, k + 1, Len(name)) IN
        /\ html_name = SubSeq(name, 1, k) \o <<".", "html">>
        /\ \/ Len(ext) = 2 /\ ext[1] = "." /\ ext[2] # "."
           \/ /\ ext = <<>>
              /\ \A d \in 2..Len(name) :
                    name[d] = "." => \A j \in 1..(d - 1) : name[j] = "."

\* C12: a successful call writes exactly one session document, at
\* output_folder/converted_sessions/<the path of input_path relative to
\* input_root, extension replaced by .html>, and makes the directories on
\* the way; an omitted output_folder or input_root is the directory of
\* input_path.
C12_DocumentPath ==
    path_pc = "done" =>
        LET a    == path_args
            out  == IF a.output_folder.given THEN a.output_folder.dir
                    ELSE SubSeq(a.input_path, 1, Len(a.input_path) - 1)
            root == IF a.input_root.given THEN a.input_root.dir
                    ELSE SubSeq(a.input_path, 1, Len(a.input_path) - 1) IN
        /\ Cardinality(path_written) = 1
        /\ \A w \in path_written :
              /\ IsPrefix(out \o <<CONVERTED_SESSIONS>>, w)
              /\ \A n \in 0..(Len(w) - 1) : SubSeq(w, 1, n) \in path_dirs
              /\ IsPrefix(root, a.input_path) =>
                    LET rel == SubSeq(a.input_path, Len(root) + 1, Len(a.input_path)) IN
                    /\ Len(w) = Len(out) + 1 + Len(rel)
                    /\ SubSeq(w, Len(out) + 2, Len(w) - 1) = SubSeq(rel, 1, Len(rel) - 1)
                    /\ ExtensionReplaced(rel[Len(rel)], w[Len(w)])

\* /in/sub/a.b.jsonl under the input root /in, converted into /out:
\* /out/converted_sessions/sub/a.b.html
C12_Witness ==
    /\ path_pc = "done"
    /\ path_args = [input_path    |-> << <<"in">>, <<"sub">>, <<"a", ".", "b", ".", "jsonl">> >>,
                    output_folder |-> GivenDir(<< <<"out">> >>),
                    input_root    |-> GivenDir(<< <<"in">> >>)]
    /\ path_written = { << <<"out">>, CONVERTED_SESSIONS, <<"sub">>,
                           <<"a", ".", "b", ".", "html">> >> }

-----------------------------------------------------------------------------
(* Claims about the overview after a call, and about the order of fragments *)

\* the files under the input root, with their session documents
RootNow == InputRoot(input_path, input_file, session_doc, siblings)

\* the rows of the overview that stand for file
RowsOf(file) ==
    {i \in 1..Len(overview.content) : overview.content[i].file = file}

\* the call has returned after writing its session document
WroteDocument == AtEnd /\ rendered_message_count > 0

\* C13: after every call that writes a session document the overview holds
\* exactly one entry for each file of the input root whose session document
\* exists, and none for any other file.
C13_OverviewMatchesDocuments ==
    WroteDocument =>
        /\ overview.exists
        /\ \A n \in DOMAIN RootNow :
              Cardinality(RowsOf(n)) = IF RootNow[n].doc.exists THEN 1 ELSE 0

\* C14: the result of a call depends on its own file only: a call that wrote
\* its session document reports a failure only when the scans of its own
\* lines fail, whatever the other files of the input root hold.
C14_FailureIsolation ==
    (WroteDocument /\ ~EntryOfFile(input_path, input_file).raised) =>
        result = Success

\* a step appends at most one fragment and leaves the earlier ones alone
OneAppended(before, after) ==
    \/ after = before
    \/ /\ Len(after) = Len(before) + 1
       /\ SubSeq(after, 1, Len(before)) = before

\* C15: the fragments follow input order: while the loop runs every step
\* takes the next line and appends at most one fragment behind those of the
\* earlier lines, no fragment is changed, moved or removed, and the document
\* written holds the fragments in that order.
C15_InputOrder ==
    [][/\ pc = "loop" =>
            /\ OneAppended(html_parts, html_parts')
            /\ pc' = "loop" => line_no' = line_no + 1
       /\ session_doc' # session_doc => session_doc'.content = html_parts']_vars

\* two lines that both contribute: the user's block stands before the
\* assistant's
C15_Witness ==
    /\ pc = "done"
    /\ input_file = <<EventLine("user_message", PStr(Hi)),
                      EventLine("agent_message", PStr(Hi))>>
    /\ Len(session_doc.content) = 4
    /\ session_doc.content[2].css_class = "role-user-chat"
    /\ session_doc.content[3].css_class = "role-assistant"

-----------------------------------------------------------------------------
(* Claims about the record kinds *)

\* a record carrying model and effort with a non-empty model
ModelInfoRecord(line) ==
    /\ line.k = "dict"
    /\ line.type = "turn_context"
    /\ PayloadOf(line).t = "dict"
    /\ TruthyValue(PayloadOf(line).d.model)

\* the model-info blocks appended so far
ModelInfoBlocks ==
    {n \in 1..Len(html_parts) :
        html_parts[n].kind = "message" /\ html_parts[n].css_class = "role-model-info"}

\* C16: every model-info record the main loop has taken has yielded one
\* model-info block.
C16_ModelInfoRendered ==
    (pc \in {"loop", "done"} /\ line_no > 0) =>
        Cardinality(ModelInfoBlocks) =
            Cardinality({i \in 1..(line_no - 1) : ModelInfoRecord(lines[i])})

\* a reasoning record whose summary text is not empty
ReasoningRecord(line) ==
    /\ line.k = "dict" /\ line.type = "response_item"
    /\ PayloadOf(line).t = "dict"
    /\ PayloadOf(line).d.type = "reasoning"
    /\ LET text == extract_text_content(SummaryOf(PayloadOf(line).d)) IN
       ~text.raised /\ text.val # <<>>

\* a function_call_output record whose output is a string
ToolOutputRecord(line) ==
    /\ line.k = "dict" /\ line.type = "response_item"
    /\ PayloadOf(line).t = "dict"
    /\ PayloadOf(line).d.type = "function_call_output"
    /\ PayloadOf(line).d.output.t = "str"

\* the fragments of a kind appended so far
PartsOfKind(kind) == {n \in 1..Len(html_parts) : html_parts[n].kind = kind}

\* C17: reasoning records and tool outputs bypass deduplication: as many
\* reasoning blocks are rendered as reasoning records with summary text were
\* taken and as many tool blocks as tool outputs, equal ones included, and the
\* step that takes such a record leaves the four dedup sets unchanged.
C17_BypassDedup ==
    /\ []((pc \in {"loop", "done"} /\ line_no > 0) =>
             /\ Cardinality(PartsOfKind("reasoning")) =
                   Cardinality({i \in 1..(line_no - 1) : ReasoningRecord(lines[i])})
             /\ Cardinality(PartsOfKind("tool")) =
                   Cardinality({i \in 1..(line_no - 1) : ToolOutputRecord(lines[i])}))
    /\ [][(/\ pc = "loop"
           /\ line_no <= Len(lines)
           /\ ReasoningRecord(lines[line_no]) \/ ToolOutputRecord(lines[line_no]))
              => UNCHANGED seen_vars]_vars

\* the same reasoning record three times: three blocks, the sets empty
C17_Witness ==
    /\ pc = "done"
    /\ input_file = [i \in 1..3 |-> ReasoningLine(JList(<<Block("summary_text", JStr(Hi))>>))]
    /\ Cardinality(PartsOfKind("reasoning")) = 3
    /\ rendered_message_count = 3
    /\ processed_user_messages \cup processed_user_events
         \cup processed_assistant_messages \cup processed_events_other = {}

\* an event_msg record of another inner type than user_message and
\* agent_message, or a record of another outer type than event_msg and
\* response_item
IgnoredRecord(line) ==
    /\ line.k = "dict"
    /\ \/ line.type \notin {"event_msg", "response_item"}
       \/ /\ line.type = "event_msg"
          /\ PayloadOf(line).t = "dict"
          /\ PayloadOf(line).d.type \notin {"user_message", "agent_message"}

\* C19: the step that takes an event_msg record whose inner type is neither
\* user_message nor agent_message, or a record whose outer type is neither
\* event_msg nor response_item, appends nothing and changes no dedup set.
C19_OtherKindsIgnored ==
    [][(pc = "loop" /\ line_no <= Len(lines) /\ IgnoredRecord(lines[line_no]))
          => UNCHANGED <<html_parts, seen_vars, rendered_message_count>>]_vars

-----------------------------------------------------------------------------
(* Claims about the assistant's two record kinds *)

\* the event_msg agent_message records taken so far that carry text
AgentEchoes(text) ==
    {i \in 1..(line_no - 1) :
        /\ lines[i].k = "dict" /\ lines[i].type = "event_msg"
        /\ PayloadOf(lines[i]).t = "dict"
        /\ PayloadOf(lines[i]).d.type = "agent_message"
        /\ PayloadOf(lines[i]).d.message = PStr(text)}

\* the response_item messages of role assistant taken so far that carry text
AssistantItems(text) ==
    {i \in 1..(line_no - 1) :
        /\ lines[i].k = "dict" /\ lines[i].type = "response_item"
        /\ PayloadOf(lines[i]).t = "dict"
        /\ PayloadOf(lines[i]).d.type = "message"
        /\ PayloadOf(lines[i]).d.role = PStr(<<"assistant">>)
        /\ extract_text_content(PayloadOf(lines[i]).d.content) = Returned(text)}

\* the blocks appended so far that show text
BlocksShowing(text) ==
    {n \in 1..Len(html_parts) :
        html_parts[n].kind = "message" /\ html_parts[n].content = format_content(text)}

\* C18: an event_msg agent_message and a response_item message of role
\* assistant share one dedup stream: once records of both kinds with the same
\* non-empty text were taken, in either order, the text's hash is in the one
\* assistant set and one assistant block shows the text.
C18_AssistantOnce ==
    (pc \in {"loop", "done"} /\ line_no > 0
        /\ AgentEchoes(Hi) # {} /\ AssistantItems(Hi) # {}) =>
        /\ Hash(Hi) \in processed_assistant_messages
        /\ Cardinality({n \in BlocksShowing(Hi) :
                           html_parts[n].css_class = "role-assistant"}) = 1

\* the response item first, its event echo second: one block
C18_Witness ==
    /\ pc = "done"
    /\ input_file = <<MessageLine(PStr(<<"assistant">>),
                                  JList(<<Block("output_text", JStr(Hi))>>)),
                      EventLine("agent_message", PStr(Hi))>>
    /\ rendered_message_count = 1
    /\ Len(html_parts) = 3
    /\ html_parts[2].css_class = "role-assistant"

-----------------------------------------------------------------------------
(* Claims about format_content's placeholders *)

\* what format_content stored for its text: the context section and the
\* code blocks
StoredContext == _extract_context_block(HtmlEscape(fmt_text))
StoredBlocks  == _extract_code_blocks(StoredContext.text).blocks

\* C20: format_content's placeholders are collision-free: distinct code
\* blocks have distinct placeholders, and the output holds every stored code
\* block and the stored context section, as they were stored, once each and
\* nowhere else: as many code elements as blocks were stored, and one
\* details element exactly when a context section was stored.
C20_PlaceholdersCollisionFree ==
    (fmt_pc = "done" /\ fmt_text # <<>>) =>
        /\ \A i, j \in 1..Len(StoredBlocks) :
              i # j => StoredBlocks[i].key # StoredBlocks[j].key
        /\ Count(fmt_html, PreLangOpen) = Len(StoredBlocks)
        /\ \A n \in 1..Len(StoredBlocks) : ContainsSeq(fmt_html, StoredBlocks[n].html)
        /\ Count(fmt_html, _wrap_context_block(<<>>)[1]) =
              IF StoredContext.context.found THEN 1 ELSE 0
        /\ StoredContext.context.found =>
              ContainsSeq(fmt_html, _wrap_context_block(StoredContext.context.body))

-----------------------------------------------------------------------------
(* Claims about records of an unsupported shape *)

\* a line that parses as JSON and is no object, or whose payload is no
\* mapping, or a message whose content is neither a string nor a list
UnsupportedShape(line) ==
    /\ line.k \in {"value", "dict"}
    /\ \/ line.k = "value" /\ line.truthy
       \/ line.k = "dict" /\ line.type \in {"event_msg", "response_item"}
            /\ PayloadOf(line).t # "dict"
       \/ line.k = "dict" /\ line.type = "response_item"
            /\ PayloadOf(line).t = "dict"
            /\ PayloadOf(line).d.type = "message"
            /\ PayloadOf(line).d.content.t \notin {"str", "list"}

\* C21: the step that takes a line of an unsupported shape adds no fragment
\* of any kind to the session document and leaves the rendered-block count
\* as it is.
C21_UnsupportedShapeDropped ==
    [][(pc = "loop" /\ line_no <= Len(lines) /\ UnsupportedShape(lines[line_no]))
          => UNCHANGED <<html_parts, rendered_message_count>>]_vars

-----------------------------------------------------------------------------
(* Claims about empty sessions and the overview *)

RECURSIVE BlocksFrom(_, _, _)
\* the number of blocks the main loop renders from line i on
BlocksFrom(ls, i, seen) ==
    IF i > Len(ls) THEN 0
    ELSE LET data == _parse_json_line(ls[i]) IN
         IF data = NoneData THEN BlocksFrom(ls, i + 1, seen)
         ELSE LET built == BuildLine(data, seen) IN
              (IF ~built.raised /\ built.html_block # NoHtml THEN 1 ELSE 0)
                  + BlocksFrom(ls, i + 1, built.seen)

\* a log whose conversion returns the empty/invalid result
ReportedEmpty(ls) ==
    /\ ~get_session_date(ls, 1).raised
    /\ BlocksFrom(ls, 1, [processed_user_messages      |-> {},
                          processed_user_events        |-> {},
                          processed_assistant_messages |-> {},
                          processed_events_other       |-> {}]) = 0

-----------------------------------------------------------------------------
(* Claims about the selection tree *)

\* the state a directory row has when it is the aggregate of its children
Aggregate(item_id) ==
    LET states == {tree_items[c] : c \in get_children(tree, item_id)} IN
    IF states = {"checked"} THEN "checked"
    ELSE IF states = {"unchecked"} THEN "unchecked"
    ELSE "partial"

RECURSIVE IsBelow(_, _)
\* the row lies somewhere below the directory row
IsBelow(item_id, dir_id) ==
    /\ tree[item_id] # ""
    /\ tree[item_id] = dir_id \/ IsBelow(tree[item_id], dir_id)

\* C23: after any toggle_check and toggle_all operations on a loaded tree
\* every directory's state is the aggregate of its children's states, and a
\* toggle on a directory gives the directory its new state (unchecked if it
\* was checked, checked otherwise) and every row below it the same state.
C23_TreeAggregate ==
    /\ [](\A d \in DOMAIN tree : d \in DirItems => tree_items[d] = Aggregate(d))
    /\ [][\A d \in DirItems :
             toggle_check(d) =>
                 /\ tree_items'[d] = IF tree_items[d] = "checked"
                                     THEN "unchecked" ELSE "checked"
                 /\ \A i \in DOMAIN tree :
                       IsBelow(i, d) => tree_items'[i] = tree_items'[d]]_vars

\* one file below d2 unchecked: d2 and d1 above it are partial, d3 is still
\* checked
C23_Witness ==
    /\ tree = NestedFolder
    /\ tree_items["f4"] = "unchecked"
    /\ tree_items["f5"] = "checked"
    /\ tree_items["d2"] = "partial"
    /\ tree_items["d1"] = "partial"
    /\ tree_items["d3"] = "checked"

\* C29: after every load_files, toggle_check and toggle_all operation the
\* Select All checkbox is checked exactly when the tree holds at least one
\* file and every file row is checked.
C29_SelectAllInSync ==
    [][check_all_var' = AllFilesChecked(tree_items')]_vars

-----------------------------------------------------------------------------
(* Claims about a batch *)

\* one batch has been started, and no other
OneBatch == Len(threads) = 1

\* the steps a row's status may take
StatusSteps ==
    {<<"Waiting...", "Converting...">>, <<"Converting...", "Done">>,
     <<"Converting...", "Error">>}

\* the k-th callback a batch hands to the UI thread: for each file, in list
\* order, "Converting..." and then "Done" or "Error" by the call's result,
\* and after the last file the notice with the file count
PostAt(self, k) ==
    IF k = 2 * Len(self.files) + 1
    THEN [kind |-> "notice", count |-> Len(self.files)]
    ELSE IF k % 2 = 1
    THEN [kind |-> "status", id |-> self.files[(k + 1) \div 2], text |-> "Converting..."]
    ELSE [kind |-> "status", id |-> self.files[k \div 2],
          text |-> IF self.results[k \div 2] THEN "Done" ELSE "Error"]

\* a thread's record at the end of its batch
IsFinished(self) == self.pc = "finished"

Running == {t \in DOMAIN threads : threads[t].pc # "finished"}

\* C28: at most one worker thread is active at a time, and the overview left
\* on disk when all work has finished lists every session document that was
\* written.
C28_SingleWorker ==
    /\ Cardinality(Running) <= 1
    /\ (threads # <<>> /\ Running = {} /\ documents # {}) => listed = documents

-----------------------------------------------------------------------------
(* Claims about headings *)

HeadingOpen  == [n \in 1..4 |-> HEADER_PATTERNS[n].open]
HeadingClose == <<"</h1>", "</h2>", "</h3>", "</h4>">>
ClosingTags  == {HeadingClose[n] : n \in 1..4}

\* the first closing heading tag of html after position i, "" if none
RECURSIVE NextClose(_, _)
NextClose(html, i) ==
    IF i >= Len(html) THEN ""
    ELSE IF html[i + 1] \in ClosingTags THEN html[i + 1]
    ELSE NextClose(html, i + 1)

\* C25: every heading element format_content emits is well formed: the
\* closing tag that follows an opening heading tag has the same level, and
\* heading lines with different numbers of # get different levels.
C25_HeadingsWellFormed ==
    fmt_pc = "done" =>
        /\ \A i \in 1..Len(fmt_html) : \A n \in 1..4 :
              fmt_html[i] = HeadingOpen[n] => NextClose(fmt_html, i) = HeadingClose[n]
        /\ \A m, n \in 1..4 : m # n => HeadingOpen[m] # HeadingOpen[n]

-----------------------------------------------------------------------------
(* Claims about the result of a call *)

\* C27: the result of convert_single_file agrees with its effect on disk: it
\* returns success exactly when the call wrote the session document, so after
\* a (False, message) result no session document is at the output path that
\* was not there before the call.
C27_ResultAgreesWithDisk ==
    pc = "done" => (result.success <=> session_doc.exists)

-----------------------------------------------------------------------------
(* Claims about the session date *)

\* the markup characters as they stand in a log
RawMarkup == {"<", ">", "&"}

NoRawMarkup(s) == \A i \in 1..Len(s) : s[i] \notin RawMarkup

\* C26: every string taken from the log and placed into the session document
\* has its markup characters escaped first: no character of the input stands
\* unescaped in the header's session date, in a message or in a reasoning
\* block of the written document.
C26_AllEscaped ==
    session_doc.exists =>
        \A i \in 1..Len(session_doc.content) :
            LET part == session_doc.content[i] IN
            /\ part.kind = "header" =>
                  (part.date_str.t = "str" => NoRawMarkup(part.date_str.s))
            /\ part.kind \in {"message", "reasoning"} => NoRawMarkup(part.content)

\* C30: for every overview entry the displayed date and the sort key come
\* from the same record: an entry with a parseable timestamp shows that
\* timestamp formatted as DD.MM.YYYY HH:MM:SS, and the date is "Unknown"
\* exactly when the session has no parseable timestamp.
C30_DateMatchesSortKey ==
    overview.exists =>
        \A i \in 1..Len(overview.content) :
            LET entry == overview.content[i] IN
            /\ entry.timestamp # None => entry.date = PStr(DisplayStamp)
            /\ entry.date = PStr(<<"Unknown">>) <=> entry.timestamp = None

====
